---- MODULE Spec2Model ----
(***************************************************************************)
(* Kinko-ryu transcription core: the notation mapper (KinkoMapper) and the *)
(* audio analyzers (ServerAudioAnalyzer, AudioAnalyzer).                   *)
(*                                                                         *)
(* Numbers are fixed-point integers:                                       *)
(*   frequency, pitch       1/100 Hz   (293.66 Hz  = 29366)                *)
(*   amplitude, confidence  1/100      (0.85       = 85)                   *)
(*   mapper times           1/100 s    (0.8 s      = 80)                   *)
(*   analyzer times         1/441000 s (TicksPerSecond), the unit in which *)
(*                          one hop of 512 samples is a whole number at    *)
(*                          44100, 48000 and 10240 samples per second      *)
(* Comparisons of products and quotients are cross-multiplied so that no   *)
(* rounding is introduced: gap > avg * 0.5 with avg = (d + p) / 2 is       *)
(* 4 * gap > d + p, and |f - c| / c > 0.03 is 100 * |f - c| > 3 * c.       *)
(* Times are exact rationals here; the code computes them in IEEE doubles, *)
(* where a sum such as startTime + duration may differ from the exact      *)
(* value by one unit in the last place.                                    *)
(* Notation glyphs are written by code point: "U+30ED" is katakana ro.     *)
(* Samples handed to autocorrelationPitchDetection are small integers and  *)
(* its correlations and frequencies exact fractions.                       *)
(***************************************************************************)
EXTENDS Integers, Sequences, FiniteSets, TLC

VARIABLES
    detectedNotes,  \* the caller's DetectedNote[] (input of convertToKinko)
    score,          \* the KinkoScore returned by convertToKinko, or NoResult
    kinkoNote,      \* the KinkoNote returned by convertNote, or NoResult
    closest,        \* the entry returned by findClosestKinkoNote, or NoResult
    audioRate,      \* samples per second of the decoded audio
    audioSamples,   \* the decoded audio, one measurement per analysis frame
    inputNotes,     \* a DetectedNote[] handed to detectTempo / detectKey
    inputFrequency, \* a frequency handed to frequencyToPitch
    frameSamples,   \* the samples of one frame handed to pitch detection
    returned,       \* analyzer operation name -> the value it returned
    notationTable,  \* the contents of the static KinkoMapper.KINKO_NOTES object
    calls           \* the completed calls of a caller that keeps every result

mapperVars == <<detectedNotes, score, kinkoNote, closest>>

analyzerVars ==
    <<audioRate, audioSamples, frameSamples, inputNotes, inputFrequency,
      returned>>

callVars == <<notationTable, calls>>

vars == <<mapperVars, analyzerVars, callVars>>

NoResult == [pending |-> TRUE]

Abs(x) == IF x < 0 THEN -x ELSE x

(***************************************************************************)
(* KinkoMapper.KINKO_NOTES, with the insertion order Object.entries walks. *)
(***************************************************************************)
KINKO_KEYS ==
    << "D4", "F4", "G4", "A4", "C5",
       "D#4", "F#4", "G#4", "A#4", "C#5",
       "D5", "F5", "G5", "A5", "C6" >>

KINKO_NOTES ==
    ("D4"  :> [katakana |-> "U+30ED",   fingering |-> "ro",       frequency |-> 29366]) @@
    ("F4"  :> [katakana |-> "U+30C4",   fingering |-> "tsu",      frequency |-> 34923]) @@
    ("G4"  :> [katakana |-> "U+30EC",   fingering |-> "re",       frequency |-> 39200]) @@
    ("A4"  :> [katakana |-> "U+30C1",   fingering |-> "chi",      frequency |-> 44000]) @@
    ("C5"  :> [katakana |-> "U+30EA",   fingering |-> "ri",       frequency |-> 52325]) @@
    ("D#4" :> [katakana |-> "U+30ED U+25EF", fingering |-> "ro-meri",  frequency |-> 31113]) @@
    ("F#4" :> [katakana |-> "U+30C4 U+25EF", fingering |-> "tsu-meri", frequency |-> 36999]) @@
    ("G#4" :> [katakana |-> "U+30EC U+25EF", fingering |-> "re-meri",  frequency |-> 41530]) @@
    ("A#4" :> [katakana |-> "U+30C1 U+25EF", fingering |-> "chi-meri", frequency |-> 46616]) @@
    ("C#5" :> [katakana |-> "U+30EA U+25EF", fingering |-> "ri-meri",  frequency |-> 55437]) @@
    ("D5"  :> [katakana |-> "U+53E3",   fingering |-> "kan-ro",   frequency |-> 58733]) @@
    ("F5"  :> [katakana |-> "U+4E59",   fingering |-> "kan-tsu",  frequency |-> 69846]) @@
    ("G5"  :> [katakana |-> "U+5DE5",   fingering |-> "kan-re",   frequency |-> 78399]) @@
    ("A5"  :> [katakana |-> "U+5C3A",   fingering |-> "kan-chi",  frequency |-> 88000]) @@
    ("C6"  :> [katakana |-> "U+4E0A",   fingering |-> "kan-ri",   frequency |-> 104650])

TECHNIQUES ==
    [ vibrato    |-> "U+2312",
      glissando  |-> "U+FF0F",
      accent     |-> "U+FF1E",
      breath     |-> "U+3001",
      long_tone  |-> "U+2014",
      crescendo  |-> "U+FF1C",
      diminuendo |-> "U+FF1E" ]

(***************************************************************************)
(* isInShakuhachiRange: 250 Hz <= frequency <= 1200 Hz.                    *)
(***************************************************************************)
minFreq == 25000
maxFreq == 120000

isInShakuhachiRange(frequency) ==
    frequency >= minFreq /\ frequency <= maxFreq

(***************************************************************************)
(* findClosestKinkoNote: start from the literal 'ro' entry and walk the    *)
(* table, replacing the candidate only on a strictly smaller distance.     *)
(***************************************************************************)
RECURSIVE closestLoop(_, _, _, _)
closestLoop(frequency, k, closestNote, minDifference) ==
    IF k > Len(KINKO_KEYS) THEN closestNote
    ELSE LET noteData   == KINKO_NOTES[KINKO_KEYS[k]]
             difference == Abs(frequency - noteData.frequency)
         IN  IF difference < minDifference
             THEN closestLoop(frequency, k + 1, noteData, difference)
             ELSE closestLoop(frequency, k + 1, closestNote, minDifference)

RECURSIVE closestLoopLastTie(_, _, _, _)
closestLoopLastTie(frequency, k, closestNote, minDifference) ==
    IF k > Len(KINKO_KEYS) THEN closestNote
    ELSE LET noteData   == KINKO_NOTES[KINKO_KEYS[k]]
             difference == Abs(frequency - noteData.frequency)
         IN  IF difference <= minDifference
             THEN closestLoopLastTie(frequency, k + 1, noteData, difference)
             ELSE closestLoopLastTie(frequency, k + 1, closestNote, minDifference)

RECURSIVE closestLoopStaleMin(_, _, _, _)
closestLoopStaleMin(frequency, k, closestNote, minDifference) ==
    IF k > Len(KINKO_KEYS) THEN closestNote
    ELSE LET noteData   == KINKO_NOTES[KINKO_KEYS[k]]
             difference == Abs(frequency - noteData.frequency)
         IN  IF difference < minDifference
             THEN closestLoopStaleMin(frequency, k + 1, noteData, minDifference)
             ELSE closestLoopStaleMin(frequency, k + 1, closestNote, minDifference)

findClosestKinkoNoteLastTie(frequency) ==
    LET closestNote == [katakana |-> "U+30ED", fingering |-> "ro", frequency |-> 29366]
    IN  closestLoopLastTie(frequency, 1, closestNote, Abs(frequency - closestNote.frequency))

findClosestKinkoNoteStaleMin(frequency) ==
    LET closestNote == [katakana |-> "U+30ED", fingering |-> "ro", frequency |-> 29366]
    IN  closestLoopStaleMin(frequency, 1, closestNote, Abs(frequency - closestNote.frequency))

findClosestKinkoNote(frequency) ==
    LET closestNote == [katakana |-> "U+30ED", fingering |-> "ro", frequency |-> 29366]
    IN  closestLoop(frequency, 1, closestNote, Abs(frequency - closestNote.frequency))

(***************************************************************************)
(* detectOrnaments: four independent checks, pushed in source order.       *)
(***************************************************************************)
PushIf(seq, cond, x) == IF cond THEN Append(seq, x) ELSE seq

detectOrnamentsOldThresholds(note) ==
    LET o1 == PushIf(<<>>, note.duration > 200, TECHNIQUES.long_tone)
        o2 == PushIf(o1, note.amplitude > 80, TECHNIQUES.accent)
    IN  o2

detectOrnaments(note) ==
    LET o1 == PushIf(<<>>, note.duration > 250, TECHNIQUES.long_tone)
        o2 == PushIf(o1, note.amplitude > 85, TECHNIQUES.accent)
        o3 == PushIf(o2, note.confidence < 60 /\ note.duration > 100,
                     TECHNIQUES.vibrato)
        o4 == PushIf(o3, note.amplitude > 70 /\ note.duration > 150,
                     TECHNIQUES.crescendo)
    IN  o4

(***************************************************************************)
(* detectTechniques: meri/kari from the deviation against the nearest      *)
(* entry, then ornamental, breath, grace.                                  *)
(***************************************************************************)
detectTechniquesSwapped(note) ==
    LET expectedFreq == findClosestKinkoNote(note.frequency).frequency
        deviates     == 100 * Abs(note.frequency - expectedFreq) > 3 * expectedFreq
        t1 == IF deviates
              THEN (IF note.frequency > expectedFreq THEN <<"meri">> ELSE <<"kari">>)
              ELSE <<>>
        t2 == PushIf(t1, note.confidence < 65, "ornamental")
        t3 == PushIf(t2, note.amplitude < 20, "breath")
        t4 == PushIf(t3, note.duration < 30, "grace")
    IN  t4

detectTechniques(note) ==
    LET expectedFreq == findClosestKinkoNote(note.frequency).frequency
        \* pitchDeviation = |frequency - expectedFreq| / expectedFreq > 0.03
        deviates     == 100 * Abs(note.frequency - expectedFreq) > 3 * expectedFreq
        t1 == IF deviates
              THEN (IF note.frequency < expectedFreq THEN <<"meri">> ELSE <<"kari">>)
              ELSE <<>>
        t2 == PushIf(t1, note.confidence < 65, "ornamental")
        t3 == PushIf(t2, note.amplitude < 20, "breath")
        t4 == PushIf(t3, note.duration < 30, "grace")
    IN  t4

convertNote(detectedNote) ==
    LET closestKinko == findClosestKinkoNote(detectedNote.frequency)
    IN  [ katakana   |-> closestKinko.katakana,
          fingering  |-> closestKinko.fingering,
          pitch      |-> detectedNote.frequency,
          duration   |-> detectedNote.duration,
          ornaments  |-> detectOrnaments(detectedNote),
          techniques |-> detectTechniques(detectedNote) ]

\* Variant: phrases carry no breath mark.
convertPhraseNoBreath(notes) ==
    [ notes  |-> [k \in 1..Len(notes) |-> convertNote(notes[k])],
      breath |-> FALSE ]

convertPhrase(notes) ==
    [ notes  |-> [k \in 1..Len(notes) |-> convertNote(notes[k])],
      breath |-> TRUE ]

(***************************************************************************)
(* groupIntoPhrases: the segmentation loop, then consolidatePhrases.       *)
(***************************************************************************)
EndOf(note) == note.startTime + note.duration

RECURSIVE segmentLoop(_, _, _, _)
segmentLoop(notes, i, phrases, currentPhrase) ==
    IF i > Len(notes) THEN phrases
    ELSE LET note     == notes[i]
             hasNext  == i < Len(notes)
             pushed   == Append(currentPhrase, note)
             \* prevNote?.duration || note.duration
             prevDuration ==
                 IF i > 1 /\ notes[i - 1].duration # 0
                 THEN notes[i - 1].duration
                 ELSE note.duration
             shouldBreakPhrase ==
                 /\ hasNext
                 /\ LET nextNote == notes[i + 1]
                        gap      == nextNote.startTime - EndOf(note)
                    IN  \/ gap > 80
                        \/ 4 * gap > note.duration + prevDuration
                        \/ 2 * Abs(nextNote.frequency - note.frequency) > note.frequency
                        \/ Len(pushed) >= 8
         IN  IF shouldBreakPhrase \/ ~hasNext
             THEN segmentLoop(notes, i + 1, Append(phrases, pushed), <<>>)
             ELSE segmentLoop(notes, i + 1, phrases, pushed)

segmentPhrases(notes) == segmentLoop(notes, 1, <<>>, <<>>)

RECURSIVE Flat(_)
Flat(phrases) ==
    IF Len(phrases) = 0 THEN <<>> ELSE Head(phrases) \o Flat(Tail(phrases))

\* Variant: no phrase is ever merged into the next one.
RECURSIVE consolidateLoopNoMerge(_, _, _)
consolidateLoopNoMerge(phrases, i, consolidated) ==
    IF i > Len(phrases) THEN <<phrases, consolidated>>
    ELSE IF Len(phrases[i]) = 0
         THEN consolidateLoopNoMerge(phrases, i + 1, consolidated)
         ELSE consolidateLoopNoMerge(phrases, i + 1,
                                     Append(consolidated, phrases[i]))

\* Variant: a merged single-note phrase is skipped without being copied
\* into the next phrase.
RECURSIVE consolidateLoopDropMerged(_, _, _)
consolidateLoopDropMerged(phrases, i, consolidated) ==
    IF i > Len(phrases) THEN <<phrases, consolidated>>
    ELSE LET phrase == phrases[i]
         IN  IF Len(phrase) = 0
             THEN consolidateLoopDropMerged(phrases, i + 1, consolidated)
             ELSE IF /\ Len(phrase) = 1
                     /\ i < Len(phrases)
                     /\ Len(phrases[i + 1]) > 0
                     /\ phrases[i + 1][1].startTime - EndOf(phrase[Len(phrase)]) < 100
                  THEN consolidateLoopDropMerged(phrases, i + 1, consolidated)
                  ELSE consolidateLoopDropMerged(phrases, i + 1,
                                                 Append(consolidated, phrase))

\* Variant: a phrase of any length is merged into the next one.
RECURSIVE consolidateLoopMergeAny(_, _, _)
consolidateLoopMergeAny(phrases, i, consolidated) ==
    IF i > Len(phrases) THEN <<phrases, consolidated>>
    ELSE LET phrase == phrases[i]
         IN  IF Len(phrase) = 0
             THEN consolidateLoopMergeAny(phrases, i + 1, consolidated)
             ELSE IF /\ i < Len(phrases)
                     /\ Len(phrases[i + 1]) > 0
                     /\ phrases[i + 1][1].startTime - EndOf(phrase[Len(phrase)]) < 100
                  THEN consolidateLoopMergeAny(
                           [phrases EXCEPT ![i + 1] = phrase \o phrases[i + 1]],
                           i + 1, consolidated)
                  ELSE consolidateLoopMergeAny(phrases, i + 1,
                                               Append(consolidated, phrase))

\* Variant: a single-note phrase in last position is skipped.
RECURSIVE consolidateLoopDropLastSingle(_, _, _)
consolidateLoopDropLastSingle(phrases, i, consolidated) ==
    IF i > Len(phrases) THEN <<phrases, consolidated>>
    ELSE LET phrase == phrases[i]
         IN  IF Len(phrase) = 0 \/ (Len(phrase) = 1 /\ i = Len(phrases))
             THEN consolidateLoopDropLastSingle(phrases, i + 1, consolidated)
             ELSE IF /\ Len(phrase) = 1
                     /\ Len(phrases[i + 1]) > 0
                     /\ phrases[i + 1][1].startTime - EndOf(phrase[Len(phrase)]) < 100
                  THEN consolidateLoopDropLastSingle(
                           [phrases EXCEPT ![i + 1] = phrase \o phrases[i + 1]],
                           i + 1, consolidated)
                  ELSE consolidateLoopDropLastSingle(phrases, i + 1,
                                                     Append(consolidated, phrase))

\* <<phrases, consolidated>> after the loop; phrases[i + 1] is overwritten
\* in place when phrase i is merged into it.
RECURSIVE consolidateLoop(_, _, _)
consolidateLoop(phrases, i, consolidated) ==
    IF i > Len(phrases) THEN <<phrases, consolidated>>
    ELSE LET phrase == phrases[i]
         IN  IF Len(phrase) = 0
             THEN consolidateLoop(phrases, i + 1, consolidated)
             ELSE IF /\ Len(phrase) = 1
                     /\ i < Len(phrases)
                     /\ Len(phrases[i + 1]) > 0
                     /\ phrases[i + 1][1].startTime - EndOf(phrase[Len(phrase)]) < 100
                  THEN consolidateLoop(
                           [phrases EXCEPT ![i + 1] = phrase \o phrases[i + 1]],
                           i + 1, consolidated)
                  ELSE consolidateLoop(phrases, i + 1, Append(consolidated, phrase))

RECURSIVE consolidateLoopWiderMerge(_, _, _)
consolidateLoopWiderMerge(phrases, i, consolidated) ==
    IF i > Len(phrases) THEN <<phrases, consolidated>>
    ELSE LET phrase == phrases[i]
         IN  IF Len(phrase) = 0
             THEN consolidateLoopWiderMerge(phrases, i + 1, consolidated)
             ELSE IF /\ Len(phrase) = 1
                     /\ i < Len(phrases)
                     /\ Len(phrases[i + 1]) > 0
                     /\ phrases[i + 1][1].startTime - EndOf(phrase[Len(phrase)]) < 150
                  THEN consolidateLoopWiderMerge(
                           [phrases EXCEPT ![i + 1] = phrase \o phrases[i + 1]],
                           i + 1, consolidated)
                  ELSE consolidateLoopWiderMerge(phrases, i + 1,
                                                 Append(consolidated, phrase))

consolidatePhrasesWiderMerge(phrases) ==
    LET r == consolidateLoopWiderMerge(phrases, 1, <<>>)
    IN  IF Len(r[2]) > 0 THEN r[2] ELSE <<Flat(r[1])>>

consolidatePhrases(phrases) ==
    LET r == consolidateLoop(phrases, 1, <<>>)
    IN  IF Len(r[2]) > 0 THEN r[2] ELSE <<Flat(r[1])>>

groupIntoPhrases(notes) ==
    IF Len(notes) = 0 THEN <<>>
    ELSE consolidatePhrases(segmentPhrases(notes))

(***************************************************************************)
(* convertToKinko: range filter, sentinel score when nothing survives,     *)
(* otherwise one converted phrase per grouped phrase.                      *)
(***************************************************************************)
InRange(note) == isInShakuhachiRange(note.frequency)

SentinelScore ==
    [ title   |-> "U+8EE2 U+5199 U+3055 U+308C U+305F U+697D U+66F2",
      phrases |-> << [ notes  |-> << [ katakana  |-> "U+30ED",
                                       fingering |-> "ro",
                                       pitch     |-> 29366,
                                       duration  |-> 100 ] >>,
                       breath |-> TRUE ] >> ]

ScoreOf(filteredNotes) ==
    LET phrases == groupIntoPhrases(filteredNotes)
    IN  [ title   |-> "U+8EE2 U+5199 U+3055 U+308C U+305F U+697D U+66F2",
          phrases |-> [k \in 1..Len(phrases) |-> convertPhrase(phrases[k])] ]

convertToKinkoNoFallback(notes) ==
    ScoreOf(SelectSeq(notes, InRange))

convertToKinkoFallbackOnRawInput(notes) ==
    IF Len(notes) = 0 THEN SentinelScore
    ELSE ScoreOf(SelectSeq(notes, InRange))

\* Variant: the title carries the number of the run.
convertToKinkoNumbered(notes) ==
    LET filteredNotes == SelectSeq(notes, InRange)
        kinkoScore    == IF Len(filteredNotes) = 0 THEN SentinelScore
                         ELSE ScoreOf(filteredNotes)
    IN  [kinkoScore EXCEPT !.title = <<kinkoScore.title, Len(calls)>>]

convertToKinko(notes) ==
    LET filteredNotes == SelectSeq(notes, InRange)
    IN  IF Len(filteredNotes) = 0 THEN SentinelScore
        ELSE ScoreOf(filteredNotes)

(***************************************************************************)
(* convertWesternToKinko, pitchToFrequency and getFingeringChart.          *)
(***************************************************************************)
noteOffsets ==
    [ C |-> -9, D |-> -7, E |-> -5, F |-> -4, G |-> -2, A |-> 0, B |-> 2,
      Db |-> -8, Eb |-> -6, Gb |-> -3, Ab |-> -1, Bb |-> 1 ] @@
    ("C#" :> -8) @@ ("D#" :> -6) @@ ("F#" :> -3) @@ ("G#" :> -1) @@ ("A#" :> 1)

\* 440 * 2^(n / 12) to the nearest 1/100 Hz, for n = -33 (C2) .. 26 (B6).
EqualTempered ==
    << 6541, 6930, 7342, 7778, 8241, 8731,
       9250, 9800, 10383, 11000, 11654, 12347,
       13081, 13859, 14683, 15556, 16481, 17461,
       18500, 19600, 20765, 22000, 23308, 24694,
       26163, 27718, 29366, 31113, 32963, 34923,
       36999, 39200, 41530, 44000, 46616, 49388,
       52325, 55437, 58733, 62225, 65926, 69846,
       73999, 78399, 83061, 88000, 93233, 98777,
       104650, 110873, 117466, 124451, 131851, 139691,
       147998, 156798, 166122, 176000, 186466, 197553 >>

\* Octaves 2 to 6 are tabulated.
pitchToFrequency(pitch, octave) ==
    EqualTempered[noteOffsets[pitch] + (octave - 4) * 12 + 34]

convertWesternToKinko(westernNotes) ==
    convertToKinko(
        [index \in 1..Len(westernNotes) |->
            [ frequency  |-> pitchToFrequency(westernNotes[index].pitch,
                                              westernNotes[index].octave),
              amplitude  |-> 70,
              startTime  |-> (index - 1) * 50,
              duration   |-> westernNotes[index].duration,
              pitch      |-> westernNotes[index].pitch,
              octave     |-> westernNotes[index].octave,
              confidence |-> 90 ]])

getFingeringDescription(fingering) ==
    CASE fingering = "ro"      -> "All holes closed"
      [] fingering = "tsu"     -> "First hole open"
      [] fingering = "re"      -> "First two holes open"
      [] fingering = "chi"     -> "First three holes open"
      [] fingering = "ri"      -> "First four holes open"
      [] fingering = "ro-meri" -> "All holes closed, half-blown"
      [] fingering = "kan-ro"  -> "All holes closed, overblown"
      [] OTHER                 -> "Traditional fingering"

getFingeringChart ==
    [k \in 1..Len(KINKO_KEYS) |->
        LET data == KINKO_NOTES[KINKO_KEYS[k]]
        IN  [ note        |-> KINKO_KEYS[k],
              katakana    |-> data.katakana,
              fingering   |-> data.fingering,
              frequency   |-> data.frequency,
              description |-> getFingeringDescription(data.fingering) ]]

(***************************************************************************)
(* The audio analyzers.  Server_x is ServerAudioAnalyzer.x and Client_x is *)
(* AudioAnalyzer.x of src/lib/audio/analyzer.ts, where the two differ.     *)
(***************************************************************************)
TicksPerSecond == 441000

null == [null |-> TRUE]

Max(a, b) == IF a > b THEN a ELSE b

Min(a, b) == IF a < b THEN a ELSE b

noteNames == <<"C", "C#", "D", "D#", "E", "F", "F#", "G", "G#", "A", "A#", "B">>

\* Math.round(12 * Math.log2(frequency / 440) + 57), tabulated: entry n + 1
\* is the least frequency (1/100 Hz) whose note number is n, i.e. the
\* ceiling of 44000 * 2^((n - 57.5) / 12), for n = 0..97.
NoteFloor ==
    <<
       1589, 1684, 1784, 1890, 2002, 2121, 2247, 2381,
       2522, 2672, 2831, 2999, 3178, 3367, 3567, 3779,
       4004, 4242, 4494, 4761, 5044, 5344, 5662, 5998,
       6355, 6733, 7133, 7557, 8007, 8483, 8987, 9521,
       10088, 10687, 11323, 11996, 12709, 13465, 14266, 15114,
       16013, 16965, 17974, 19042, 20175, 21374, 22645, 23992,
       25418, 26930, 28531, 30227, 32025, 33929, 35947, 38084,
       40349, 42748, 45290, 47983, 50836, 53859, 57061, 60454,
       64049, 67858, 71893, 76168, 80697, 85495, 90579, 95965,
       101672, 107717, 114122, 120908, 128098, 135715, 143785, 152335,
       161393, 170990, 181158, 191930, 203343, 215434, 228244, 241816,
       256195, 271430, 287570, 304669, 322786, 341980, 362315, 383859,
       406685, 430867 >>

\* Defined for NoteFloor[1] <= frequency < NoteFloor[98].
noteNumber(f) == Cardinality({n \in 1..Len(NoteFloor) : NoteFloor[n] <= f}) - 1

\* A4_NOTE = 57; octave = Math.floor(noteNumber / 12) - 1.
frequencyToPitch(f) ==
    LET n == noteNumber(f)
    IN  [pitch |-> noteNames[(n % 12) + 1], octave |-> (n \div 12) - 1]

Server_frequencyToPitch(f) ==
    LET n == noteNumber(f)
    IN  [pitch |-> noteNames[(n % 12) + 1], octave |-> Max(0, (n \div 12) - 1)]

\* Variant: the list is scanned in the order it was handed over.
sortByStartTimeSkipped(noteSeq) == noteSeq

\* notes.sort((a, b) => a.startTime - b.startTime): a stable sort.
RECURSIVE sortByStartTime(_)
sortByStartTime(noteSeq) ==
    IF Len(noteSeq) <= 1 THEN noteSeq
    ELSE LET last   == noteSeq[Len(noteSeq)]
             front  == sortByStartTime(SubSeq(noteSeq, 1, Len(noteSeq) - 1))
             before == SelectSeq(front, LAMBDA n : n.startTime <= last.startTime)
             after  == SelectSeq(front, LAMBDA n : n.startTime > last.startTime)
         IN  before \o <<last>> \o after

\* Variant: a frame exactly 10 Hz away still extends the note.
Server_extendsInclusive(note, currentNote) ==
    /\ Abs(note.frequency - currentNote.frequency) <= 1000
    /\ 10 * (note.startTime - (currentNote.startTime + currentNote.duration))
           < TicksPerSecond

\* tolerance = 0.1, frequencyTolerance = 10
Server_extends(note, currentNote) ==
    /\ Abs(note.frequency - currentNote.frequency) < 1000
    /\ 10 * (note.startTime - (currentNote.startTime + currentNote.duration))
           < TicksPerSecond

\* currentNote.duration >= 0.05
Server_longEnough(currentNote) == 20 * currentNote.duration >= TicksPerSecond

Server_extended(note, currentNote) ==
    [currentNote EXCEPT
        !.duration   = note.startTime + note.duration - currentNote.startTime,
        !.amplitude  = Max(currentNote.amplitude, note.amplitude),
        !.confidence = Max(currentNote.confidence, note.confidence)]

\* Variant: the extended duration is not taken relative to the note's start.
RECURSIVE Server_consolidateLoopAbsoluteEnd(_, _, _, _)
Server_consolidateLoopAbsoluteEnd(sorted, i, consolidated, currentNote) ==
    IF i > Len(sorted)
    THEN IF currentNote # null /\ Server_longEnough(currentNote)
         THEN Append(consolidated, currentNote)
         ELSE consolidated
    ELSE LET note == sorted[i]
         IN  IF currentNote = null
             THEN Server_consolidateLoopAbsoluteEnd(sorted, i + 1, consolidated, note)
             ELSE IF Server_extends(note, currentNote)
             THEN Server_consolidateLoopAbsoluteEnd(sorted, i + 1, consolidated,
                      [Server_extended(note, currentNote) EXCEPT
                          !.duration = note.startTime + note.duration])
             ELSE Server_consolidateLoopAbsoluteEnd(sorted, i + 1,
                      IF Server_longEnough(currentNote)
                      THEN Append(consolidated, currentNote)
                      ELSE consolidated,
                      note)

Server_consolidateNotesAbsoluteEnd(noteSeq) ==
    IF Len(noteSeq) = 0 THEN <<>>
    ELSE Server_consolidateLoopAbsoluteEnd(sortByStartTime(noteSeq), 1, <<>>, null)

\* Variant: every closed note is emitted, whatever its duration.
RECURSIVE Server_consolidateLoopNoMinimum(_, _, _, _)
Server_consolidateLoopNoMinimum(sorted, i, consolidated, currentNote) ==
    IF i > Len(sorted)
    THEN IF currentNote # null
         THEN Append(consolidated, currentNote)
         ELSE consolidated
    ELSE LET note == sorted[i]
         IN  IF currentNote = null
             THEN Server_consolidateLoopNoMinimum(sorted, i + 1, consolidated, note)
             ELSE IF Server_extends(note, currentNote)
             THEN Server_consolidateLoopNoMinimum(sorted, i + 1, consolidated,
                      Server_extended(note, currentNote))
             ELSE Server_consolidateLoopNoMinimum(sorted, i + 1,
                      Append(consolidated, currentNote), note)

Server_consolidateNotesNoMinimum(noteSeq) ==
    IF Len(noteSeq) = 0 THEN <<>>
    ELSE Server_consolidateLoopNoMinimum(sortByStartTime(noteSeq), 1, <<>>, null)

\* for (const note of notes) { ... } and the final push.
RECURSIVE Server_consolidateLoop(_, _, _, _)
Server_consolidateLoop(sorted, i, consolidated, currentNote) ==
    IF i > Len(sorted)
    THEN IF currentNote # null /\ Server_longEnough(currentNote)
         THEN Append(consolidated, currentNote)
         ELSE consolidated
    ELSE LET note == sorted[i]
         IN  IF currentNote = null
             THEN Server_consolidateLoop(sorted, i + 1, consolidated, note)
             ELSE IF Server_extends(note, currentNote)
             THEN Server_consolidateLoop(sorted, i + 1, consolidated,
                      Server_extended(note, currentNote))
             ELSE Server_consolidateLoop(sorted, i + 1,
                      IF Server_longEnough(currentNote)
                      THEN Append(consolidated, currentNote)
                      ELSE consolidated,
                      note)

Server_consolidateNotes(noteSeq) ==
    IF Len(noteSeq) = 0 THEN <<>>
    ELSE Server_consolidateLoop(sortByStartTime(noteSeq), 1, <<>>, null)

frameSize == 2048

hopSize == 512

\* i / sampleRate seconds, in ticks (exact for the sample rates explored).
Seconds(i, sampleRate) == (i * (TicksPerSecond \div 10)) \div (sampleRate \div 10)

\* The analysis of the frame at sample i: the values that
\* autocorrelationPitchDetection, calculateRMS and calculatePitchConfidence
\* compute from the frame's samples (frequency 0: no pitch found).
FrameAt(samples, i) == samples[(i \div hopSize) + 1]

\* samples.length of a buffer of which the loop below analyzes n frames.
SamplesLength(samples) ==
    IF Len(samples) = 0 THEN 0 ELSE frameSize + hopSize * Len(samples)

\* for (i = 0; i < samples.length - frameSize; i += hopSize) { ... }
RECURSIVE Server_frameLoop(_, _, _, _)
Server_frameLoop(samples, sampleRate, i, frames) ==
    IF ~(i < SamplesLength(samples) - frameSize) THEN frames
    ELSE LET frame == FrameAt(samples, i)
             named == Server_frequencyToPitch(frame.frequency)
         IN  IF frame.frequency > 0 /\ frame.amplitude > 1
             THEN Server_frameLoop(samples, sampleRate, i + hopSize,
                      Append(frames,
                          [ frequency  |-> frame.frequency,
                            amplitude  |-> frame.amplitude,
                            startTime  |-> Seconds(i, sampleRate),
                            duration   |-> Seconds(hopSize, sampleRate),
                            pitch      |-> named.pitch,
                            octave     |-> named.octave,
                            confidence |-> frame.confidence ]))
             ELSE Server_frameLoop(samples, sampleRate, i + hopSize, frames)

Server_detectNotesFromSamples(samples, sampleRate) ==
    Server_consolidateNotes(Server_frameLoop(samples, sampleRate, 0, <<>>))

\* intervals.sort((a, b) => a - b)
RECURSIVE sortNumbers(_)
sortNumbers(numbers) ==
    IF Len(numbers) <= 1 THEN numbers
    ELSE LET last  == numbers[Len(numbers)]
             front == sortNumbers(SubSeq(numbers, 1, Len(numbers) - 1))
         IN  SelectSeq(front, LAMBDA x : x <= last) \o <<last>> \o
             SelectSeq(front, LAMBDA x : x > last)

\* Math.round(a / b) for a >= 0, b > 0: halves round up.
RoundDiv(a, b) == (2 * a + b) \div (2 * b)

\* Variant: the BPM is returned without the clamp.
TempoOfUnclamped(intervals) ==
    LET sorted         == sortNumbers(intervals)
        medianInterval == sorted[(Len(sorted) \div 2) + 1]
    IN  RoundDiv(60 * TicksPerSecond, medianInterval)

\* intervals[Math.floor(intervals.length / 2)] of the sorted intervals, as
\* Math.round(60 / medianInterval), clamped.
TempoOf(intervals) ==
    LET sorted         == sortNumbers(intervals)
        medianInterval == sorted[(Len(sorted) \div 2) + 1]
        bpm            == RoundDiv(60 * TicksPerSecond, medianInterval)
    IN  Max(60, Min(180, bpm))

\* notes[i].startTime - notes[i-1].startTime, i = 1..length-1
Deltas(times) == [k \in 1..(Len(times) - 1) |-> times[k + 1] - times[k]]

\* interval > 0.1 && interval < 4.0
Server_detectTempo(noteSeq) ==
    IF Len(noteSeq) < 4 THEN 100
    ELSE LET starts    == [k \in 1..Len(noteSeq) |-> noteSeq[k].startTime]
             intervals == SelectSeq(Deltas(starts),
                              LAMBDA x : /\ 10 * x > TicksPerSecond
                                         /\ x < 4 * TicksPerSecond)
         IN  IF Len(intervals) = 0 THEN 100 ELSE TempoOf(intervals)

\* AudioAnalyzer.detectTempo of the onset-based analyzer, from the onset
\* times that detectOnsets reports.
Onset_detectTempo(onsets) ==
    IF Len(onsets) < 4 THEN 100 ELSE TempoOf(Deltas(onsets))

shakuhachiKeys == <<"D", "Eb", "F", "G", "A", "Bb">>

scalePatterns ==
    [ D  |-> <<"D", "F", "G", "A", "C">>,
      Eb |-> <<"Eb", "Gb", "Ab", "Bb", "Db">>,
      F  |-> <<"F", "Ab", "Bb", "C", "Eb">>,
      G  |-> <<"G", "Bb", "C", "D", "F">>,
      A  |-> <<"A", "C", "D", "E", "G">>,
      Bb |-> <<"Bb", "Db", "Eb", "F", "Ab">> ]

\* The weight of each note: duration * confidence in ticks/100 (server), or
\* the duration in ticks (onset-based analyzer).
Server_weights(noteSeq) ==
    [k \in 1..Len(noteSeq) |-> noteSeq[k].duration * noteSeq[k].confidence]

Onset_weights(noteSeq) == [k \in 1..Len(noteSeq) |-> noteSeq[k].duration]

\* histogram[note.pitch] = (histogram[note.pitch] || 0) + weight, note by
\* note; a pitch that never occurs has no entry.
RECURSIVE histogramLoop(_, _, _, _)
histogramLoop(noteSeq, weights, i, histogram) ==
    IF i > Len(noteSeq) THEN histogram
    ELSE LET note == noteSeq[i]
             old  == IF note.pitch \in DOMAIN histogram
                     THEN histogram[note.pitch] ELSE 0
         IN  histogramLoop(noteSeq, weights, i + 1,
                 (note.pitch :> (old + weights[i])) @@ histogram)

RECURSIVE scoreLoop(_, _, _, _)
scoreLoop(histogram, pattern, i, keyScore) ==
    IF i > Len(pattern) THEN keyScore
    ELSE LET pitch == pattern[i]
         IN  IF pitch \in DOMAIN histogram /\ histogram[pitch] # 0
             THEN scoreLoop(histogram, pattern, i + 1, keyScore + histogram[pitch])
             ELSE scoreLoop(histogram, pattern, i + 1, keyScore)

calculateKeyScore(histogram, key) ==
    LET pattern == IF key \in DOMAIN scalePatterns
                   THEN scalePatterns[key] ELSE scalePatterns["D"]
    IN  scoreLoop(histogram, pattern, 1, 0)

\* Variant: a candidate that only equals the best score replaces it.
RECURSIVE keyLoopLastTie(_, _, _, _)
keyLoopLastTie(histogram, i, bestKey, bestScore) ==
    IF i > Len(shakuhachiKeys) THEN bestKey
    ELSE LET key      == shakuhachiKeys[i]
             keyScore == calculateKeyScore(histogram, key)
         IN  IF keyScore >= bestScore
             THEN keyLoopLastTie(histogram, i + 1, key, keyScore)
             ELSE keyLoopLastTie(histogram, i + 1, bestKey, bestScore)

\* for (const key of shakuhachiKeys) { if (score > bestScore) ... }
RECURSIVE keyLoop(_, _, _, _)
keyLoop(histogram, i, bestKey, bestScore) ==
    IF i > Len(shakuhachiKeys) THEN bestKey
    ELSE LET key      == shakuhachiKeys[i]
             keyScore == calculateKeyScore(histogram, key)
         IN  IF keyScore > bestScore
             THEN keyLoop(histogram, i + 1, key, keyScore)
             ELSE keyLoop(histogram, i + 1, bestKey, bestScore)

Server_detectKey(noteSeq) ==
    IF Len(noteSeq) = 0 THEN "D"
    ELSE keyLoop(histogramLoop(noteSeq, Server_weights(noteSeq), 1, <<>>),
                 1, "D", 0)

Onset_detectKey(noteSeq) ==
    IF Len(noteSeq) = 0 THEN "D"
    ELSE keyLoop(histogramLoop(noteSeq, Onset_weights(noteSeq), 1, <<>>),
                 1, "D", 0)

\* A confidence is an exact fraction num / den.
Fraction(num, den) == [num |-> num, den |-> den]

RECURSIVE sumConfidence(_)
sumConfidence(noteSeq) ==
    IF Len(noteSeq) = 0 THEN 0
    ELSE noteSeq[1].confidence + sumConfidence(Tail(noteSeq))

\* averageConfidence * 0.6 + density * 0.2 + countScore * 0.2, over 1000 n
Server_calculateOverallConfidence(noteSeq) ==
    IF Len(noteSeq) = 0 THEN Fraction(0, 1)
    ELSE LET noteCount == Len(noteSeq)
             density   == 4 * noteCount * Min(noteCount, 50)
             countPart == IF noteCount < 5 THEN 40 * noteCount * noteCount
                          ELSE IF noteCount > 200 THEN 160 * noteCount
                          ELSE 200 * noteCount
         IN  Fraction(6 * sumConfidence(noteSeq) + density + countPart,
                      1000 * noteCount)

(***************************************************************************)
(* autocorrelationPitchDetection.  Samples are integers; a normalized      *)
(* correlation is the exact fraction correlation / normalizer, and the     *)
(* returned frequency the exact fraction sampleRate / bestPeriod.          *)
(***************************************************************************)
\* a > b for fractions with positive denominators.
Greater(a, b) == a.num * b.den > b.num * a.den

\* for (let i = 0; i < buffer.length - period; i++) { ... }, with i from 1.
RECURSIVE correlationLoop(_, _, _, _, _)
correlationLoop(buffer, period, i, correlation, normalizer) ==
    IF ~(i <= Len(buffer) - period) THEN <<correlation, normalizer>>
    ELSE correlationLoop(buffer, period, i + 1,
                         correlation + buffer[i] * buffer[i + period],
                         normalizer + buffer[i] * buffer[i])

\* if (normalizer > 0) correlation = correlation / normalizer
normalizedCorrelation(buffer, period) ==
    LET sums == correlationLoop(buffer, period, 1, 0, 0)
    IN  IF sums[2] > 0 THEN Fraction(sums[1], sums[2]) ELSE Fraction(sums[1], 1)

\* Variant: a later period replaces the best one on an equal correlation.
RECURSIVE periodLoopLastTie(_, _, _, _, _)
periodLoopLastTie(buffer, period, maxPeriod, bestCorrelation, bestPeriod) ==
    IF period > maxPeriod
    THEN [bestCorrelation |-> bestCorrelation, bestPeriod |-> bestPeriod]
    ELSE LET correlation == normalizedCorrelation(buffer, period)
         IN  IF ~Greater(bestCorrelation, correlation)
             THEN periodLoopLastTie(buffer, period + 1, maxPeriod,
                                    correlation, period)
             ELSE periodLoopLastTie(buffer, period + 1, maxPeriod,
                                    bestCorrelation, bestPeriod)

\* for (let period = minPeriod; period <= maxPeriod; period++) { ... }
RECURSIVE periodLoop(_, _, _, _, _)
periodLoop(buffer, period, maxPeriod, bestCorrelation, bestPeriod) ==
    IF period > maxPeriod
    THEN [bestCorrelation |-> bestCorrelation, bestPeriod |-> bestPeriod]
    ELSE LET correlation == normalizedCorrelation(buffer, period)
         IN  IF Greater(correlation, bestCorrelation)
             THEN periodLoop(buffer, period + 1, maxPeriod, correlation, period)
             ELSE periodLoop(buffer, period + 1, maxPeriod,
                             bestCorrelation, bestPeriod)

Server_autocorrelationPitchDetection(buffer, sampleRate, lowest, highest) ==
    LET minPeriod == sampleRate \div highest    \* Math.floor(. / maxFreq)
        maxPeriod == sampleRate \div lowest     \* Math.floor(. / minFreq)
        best      == periodLoop(buffer, minPeriod, maxPeriod, Fraction(0, 1), 0)
    IN  IF /\ Greater(best.bestCorrelation, Fraction(3, 10))
           /\ best.bestPeriod > 0
        THEN Fraction(sampleRate, best.bestPeriod)
        ELSE Fraction(0, 1)

\* Variant: an empty sample buffer is rejected as a violated precondition.
Server_analyzeAudioBufferFailFast(samples, sampleRate) ==
    IF SamplesLength(samples) = 0
    THEN [error |-> "Audio analysis failed: empty sample buffer"]
    ELSE LET noteSeq == Server_detectNotesFromSamples(samples, sampleRate)
         IN  [ notes      |-> noteSeq,
               tempo      |-> Server_detectTempo(noteSeq),
               key        |-> Server_detectKey(noteSeq),
               confidence |-> Server_calculateOverallConfidence(noteSeq) ]

\* sampleRate is Math.floor(samples.length / duration) || 44100: 44100 for
\* an empty buffer, whatever the duration.
Server_analyzeAudioBuffer(samples, sampleRate) ==
    LET rate    == IF SamplesLength(samples) = 0 THEN 44100 ELSE sampleRate
        noteSeq == Server_detectNotesFromSamples(samples, rate)
    IN  [ notes      |-> noteSeq,
          tempo      |-> Server_detectTempo(noteSeq),
          key        |-> Server_detectKey(noteSeq),
          confidence |-> Server_calculateOverallConfidence(noteSeq) ]

(***************************************************************************)
(* AudioAnalyzer of src/lib/audio/analyzer.ts.                             *)
(***************************************************************************)
\* tolerance = 0.05, frequency difference < 5
Client_extends(note, currentNote) ==
    /\ Abs(note.frequency - currentNote.frequency) < 500
    /\ 20 * (note.startTime - (currentNote.startTime + currentNote.duration))
           < TicksPerSecond

RECURSIVE Client_consolidateLoop(_, _, _, _)
Client_consolidateLoop(noteSeq, i, consolidated, currentNote) ==
    IF i > Len(noteSeq)
    THEN IF currentNote # null THEN Append(consolidated, currentNote)
         ELSE consolidated
    ELSE LET note == noteSeq[i]
         IN  IF currentNote = null
             THEN Client_consolidateLoop(noteSeq, i + 1, consolidated, note)
             ELSE IF Client_extends(note, currentNote)
             THEN Client_consolidateLoop(noteSeq, i + 1, consolidated,
                      [currentNote EXCEPT
                          !.duration  = note.startTime + note.duration
                                            - currentNote.startTime,
                          !.amplitude = Max(currentNote.amplitude, note.amplitude)])
             ELSE Client_consolidateLoop(noteSeq, i + 1,
                      Append(consolidated, currentNote), note)

Client_consolidateNotes(noteSeq) ==
    Client_consolidateLoop(noteSeq, 1, <<>>, null)

\* for (i = 0; i < channelData.length - frameSize; i += hopSize) { ... }
RECURSIVE Client_frameLoop(_, _, _, _)
Client_frameLoop(channelData, sampleRate, i, frames) ==
    IF ~(i < SamplesLength(channelData) - frameSize) THEN frames
    ELSE LET frame == FrameAt(channelData, i)
             named == frequencyToPitch(frame.frequency)
         IN  IF frame.frequency > 0 /\ frame.amplitude > 1
             THEN Client_frameLoop(channelData, sampleRate, i + hopSize,
                      Append(frames,
                          [ frequency  |-> frame.frequency,
                            amplitude  |-> frame.amplitude,
                            startTime  |-> Seconds(i, sampleRate),
                            duration   |-> Seconds(hopSize, sampleRate),
                            pitch      |-> named.pitch,
                            octave     |-> named.octave,
                            confidence |-> frame.confidence ]))
             ELSE Client_frameLoop(channelData, sampleRate, i + hopSize, frames)

Client_detectNotes(channelData, sampleRate) ==
    Client_consolidateNotes(Client_frameLoop(channelData, sampleRate, 0, <<>>))

Client_detectTempo == 120

\* Object.keys(pitchHistogram): the pitch names in order of first occurrence.
RECURSIVE histogramKeys(_, _, _)
histogramKeys(noteSeq, i, keys) ==
    IF i > Len(noteSeq) THEN keys
    ELSE histogramKeys(noteSeq, i + 1,
             IF \E k \in 1..Len(keys) : keys[k] = noteSeq[i].pitch THEN keys
             ELSE Append(keys, noteSeq[i].pitch))

\* pitchHistogram[pitch]: the number of notes of that pitch name.
pitchCount(noteSeq, pitch) ==
    Cardinality({k \in 1..Len(noteSeq) : noteSeq[k].pitch = pitch})

\* keys.reduce((a, b) => pitchHistogram[a] > pitchHistogram[b] ? a : b)
\* from the first key on.
RECURSIVE reduceLoop(_, _, _, _)
reduceLoop(noteSeq, keys, i, a) ==
    IF i > Len(keys) THEN a
    ELSE LET b == keys[i]
         IN  reduceLoop(noteSeq, keys, i + 1,
                 IF pitchCount(noteSeq, a) > pitchCount(noteSeq, b) THEN a ELSE b)

\* reduce without an initial value throws on an empty array; otherwise the
\* result is truthy and returned ([value |-> key]).
Client_detectKey(noteSeq) ==
    LET keys == histogramKeys(noteSeq, 1, <<>>)
    IN  IF Len(keys) = 0
        THEN [threw |-> "TypeError: Reduce of empty array with no initial value"]
        ELSE [value |-> reduceLoop(noteSeq, keys, 2, keys[1])]

\* averageConfidence * 0.7 + density * 0.3, over 1000 n
Client_calculateOverallConfidence(noteSeq) ==
    IF Len(noteSeq) = 0 THEN Fraction(0, 1)
    ELSE LET noteCount == Len(noteSeq)
         IN  Fraction(7 * sumConfidence(noteSeq)
                          + 3 * noteCount * Min(noteCount, 100),
                      1000 * noteCount)

\* analyzeAudioFile with an AudioContext and a decodable file: the decoded
\* channel data is analyzed; whatever is thrown inside the try block is
\* rethrown as 'Failed to analyze audio: ...'.
Client_analyzeAudioFile(channelData, sampleRate) ==
    LET noteSeq == Client_detectNotes(channelData, sampleRate)
        key     == Client_detectKey(noteSeq)
    IN  IF "threw" \in DOMAIN key
        THEN [error |-> "Failed to analyze audio: " \o key.threw]
        ELSE [ notes      |-> noteSeq,
               tempo      |-> Client_detectTempo,
               key        |-> key.value,
               confidence |-> Client_calculateOverallConfidence(noteSeq) ]

(***************************************************************************)
(* The callers.  The tests build note lists with createDetectedNote        *)
(* (confidence 0.8) and hand them to convertToKinko.                       *)
(***************************************************************************)
Note(f, a, s, d, c) ==
    [frequency |-> f, amplitude |-> a, startTime |-> s, duration |-> d,
     confidence |-> c]

createDetectedNote(frequency, duration, amplitude, startTime) ==
    Note(frequency, amplitude, startTime, duration, 80)

\* Bounds of the explored inputs.
MaxNotes   == 3     \* list length under Spec
MaxPassage == 10    \* list length under SpecLong

\* 100 Hz and 2000 Hz are out of range; 293.66 -> 880 Hz is a large jump.
Freqs     == {10000, 29366, 88000, 200000}
Durations == {50, 200}
Gaps      == {0, 30, 90, 120}

\* A long passage: 0.5 s notes, <<frequency, gap before the note>>.
PassageSteps == {<<29366, 0>>, <<88000, 0>>, <<29366, 90>>}

\* Single probe notes for the per-note functions.
ProbeFreqs ==
    {KINKO_NOTES[k].frequency : k \in DOMAIN KINKO_NOTES} \cup
    { 5000, 10000, 24999, 25000, 27500, 28000, 28485, 28486, 28500, 29000,
      29500, 30500, 31000, 31500, 33000, 33018, 33100, 35961, 44500, 110000,
      120000, 120001, 200000, 300000 }
ProbeDurations   ==
    {20, 29, 30, 50, 100, 101, 150, 151, 180, 250, 251, 280, 300}
ProbeAmplitudes  == {15, 19, 20, 60, 70, 71, 85, 86, 95}
ProbeConfidences == {50, 59, 60, 64, 65, 80}

NextStart(notes, gap) ==
    IF Len(notes) = 0 THEN 0 ELSE EndOf(notes[Len(notes)]) + gap

PushNote ==
    /\ score = NoResult
    /\ Len(detectedNotes) < MaxNotes
    /\ \E f \in Freqs, d \in Durations, g \in Gaps :
          detectedNotes' =
              Append(detectedNotes,
                     createDetectedNote(f, d, 80, NextStart(detectedNotes, g)))
    /\ UNCHANGED <<callVars, score, kinkoNote, closest, analyzerVars>>

PushPassageNote ==
    /\ score = NoResult
    /\ Len(detectedNotes) < MaxPassage
    /\ \E st \in PassageSteps :
          detectedNotes' =
              Append(detectedNotes,
                     createDetectedNote(st[1], 50, 80,
                                        NextStart(detectedNotes, st[2])))
    /\ UNCHANGED <<callVars, score, kinkoNote, closest, analyzerVars>>

ConvertToKinko ==
    /\ score = NoResult
    /\ score' = convertToKinko(detectedNotes)
    /\ UNCHANGED <<callVars, detectedNotes, kinkoNote, closest, analyzerVars>>

ConvertNote ==
    /\ kinkoNote = NoResult
    /\ Len(detectedNotes) > 0
    /\ kinkoNote' = convertNote(detectedNotes[1])
    /\ UNCHANGED <<callVars, detectedNotes, score, closest, analyzerVars>>

FindClosestKinkoNote ==
    /\ closest = NoResult
    /\ Len(detectedNotes) > 0
    /\ closest' = findClosestKinkoNote(detectedNotes[1].frequency)
    /\ UNCHANGED <<callVars, detectedNotes, score, kinkoNote, analyzerVars>>

NoResults ==
    /\ score = NoResult
    /\ kinkoNote = NoResult
    /\ closest = NoResult

\* The analyzers are idle while the mapper is exercised.
AnalyzerIdle ==
    /\ audioRate = 44100
    /\ audioSamples = <<>>
    /\ frameSamples = <<>>
    /\ inputNotes = <<>>
    /\ inputFrequency = 0
    /\ returned = <<>>

\* The notation table as declared, and no call made yet.
NoCalls ==
    /\ notationTable = KINKO_NOTES
    /\ calls = <<>>

Init == detectedNotes = <<>> /\ NoResults /\ AnalyzerIdle /\ NoCalls

InitNote ==
    /\ detectedNotes \in
          { <<Note(f, a, 0, d, c)>> :
                f \in ProbeFreqs, a \in ProbeAmplitudes,
                d \in ProbeDurations, c \in ProbeConfidences }
    /\ NoResults
    /\ AnalyzerIdle
    /\ NoCalls

Next == PushNote \/ ConvertToKinko

NextLong == PushPassageNote \/ ConvertToKinko

NextNote == ConvertToKinko \/ ConvertNote \/ FindClosestKinkoNote

\* Short note lists with varied pitch, duration and spacing.
Spec == Init /\ [][Next]_vars

\* Long passages of evenly sized notes.
SpecLong == Init /\ [][NextLong]_vars

\* One note with varied frequency, amplitude, duration and confidence.
SpecNote == InitNote /\ [][NextNote]_vars

\* Bound of the note lists under SpecJump.
MaxJumpNotes == 3

\* 300/600 and 440/880 Hz are an octave apart, 440/660 Hz a fifth, 300/880 Hz
\* more than an octave.
JumpFreqs == {30000, 44000, 60000, 66000, 88000}

PushJumpNote ==
    /\ score = NoResult
    /\ Len(detectedNotes) < MaxJumpNotes
    /\ \E f \in JumpFreqs :
          detectedNotes' =
              Append(detectedNotes,
                     createDetectedNote(f, 50, 80, NextStart(detectedNotes, 0)))
    /\ UNCHANGED <<callVars, score, kinkoNote, closest, analyzerVars>>

NextJump == PushJumpNote \/ ConvertToKinko

\* Back-to-back 0.5 s notes whose pitch moves by a fifth, an octave or more.
SpecJump == Init /\ [][NextJump]_vars

(***************************************************************************)
(* The analyzers' callers.  Each analyzer operation is called on the input *)
(* held in the analyzer variables and its return value is recorded under   *)
(* the operation's name.                                                   *)
(***************************************************************************)
Called(op) == op \in DOMAIN returned

Return(op, value) == returned' = (op :> value) @@ returned

MapperIdle == detectedNotes = <<>> /\ NoResults

\* Frequencies either side of every semitone boundary, and the tests' tones.
PitchProbeFreqs ==
    {NoteFloor[n] : n \in 1..(Len(NoteFloor) - 1)} \cup
    {NoteFloor[n] - 1 : n \in 2..Len(NoteFloor)} \cup
    {44000, 29366, 52325, 39200, 46616, 58733, 69846, 8000, 200000}

FrequencyToPitch ==
    /\ ~Called("frequencyToPitch")
    /\ Return("frequencyToPitch", frequencyToPitch(inputFrequency))
    /\ UNCHANGED <<callVars, mapperVars, frameSamples, audioRate,
                   audioSamples, inputNotes, inputFrequency>>

ServerFrequencyToPitch ==
    /\ ~Called("Server_frequencyToPitch")
    /\ Return("Server_frequencyToPitch",
              Server_frequencyToPitch(inputFrequency))
    /\ UNCHANGED <<callVars, mapperVars, frameSamples, audioRate,
                   audioSamples, inputNotes, inputFrequency>>

\* Bound of the explored buffers, in analysis frames.
MaxFrames == 5

\* 512 samples are 0.0116 s at 44100 Hz, 0.0232 s at 22050 Hz and exactly
\* 0.05 s at 10240 Hz.
SampleRates == {44100, 22050, 10240}

\* What a frame can measure: no pitch; a pitch at amplitude 0.01; D4; a tone
\* 6.34 Hz above D4; a tone exactly 10 Hz above D4; A4.
FrameKinds ==
    { [frequency |-> 0,     amplitude |-> 0,  confidence |-> 0],
      [frequency |-> 29366, amplitude |-> 1,  confidence |-> 30],
      [frequency |-> 29366, amplitude |-> 50, confidence |-> 70],
      [frequency |-> 30000, amplitude |-> 60, confidence |-> 90],
      [frequency |-> 30366, amplitude |-> 40, confidence |-> 80],
      [frequency |-> 44000, amplitude |-> 50, confidence |-> 60] }

PushFrame ==
    /\ returned = <<>>
    /\ Len(audioSamples) < MaxFrames
    /\ \E frame \in FrameKinds : audioSamples' = Append(audioSamples, frame)
    /\ UNCHANGED <<callVars, mapperVars, frameSamples, audioRate, inputNotes,
                   inputFrequency, returned>>

DetectNotesFromSamples ==
    /\ returned = <<>>
    /\ Return("Server_detectNotesFromSamples",
              Server_detectNotesFromSamples(audioSamples, audioRate))
    /\ UNCHANGED <<callVars, mapperVars, frameSamples, audioRate,
                   audioSamples, inputNotes, inputFrequency>>

InitFrames ==
    /\ MapperIdle
    /\ audioRate \in SampleRates
    /\ audioSamples = <<>>
    /\ frameSamples = <<>>
    /\ inputNotes = <<>>
    /\ inputFrequency = 0
    /\ returned = <<>>
    /\ NoCalls

AnalyzeAudioBuffer ==
    /\ returned = <<>>
    /\ Return("Server_analyzeAudioBuffer",
              Server_analyzeAudioBuffer(audioSamples, audioRate))
    /\ UNCHANGED <<callVars, mapperVars, frameSamples, audioRate,
                   audioSamples, inputNotes, inputFrequency>>

AnalyzeAudioFile ==
    /\ returned = <<>>
    /\ Return("Client_analyzeAudioFile",
              Client_analyzeAudioFile(audioSamples, audioRate))
    /\ UNCHANGED <<callVars, mapperVars, frameSamples, audioRate,
                   audioSamples, inputNotes, inputFrequency>>

NextFrames ==
    PushFrame \/ DetectNotesFromSamples \/ AnalyzeAudioBuffer \/ AnalyzeAudioFile

\* A buffer of a few frames, analyzed once.
SpecFrames == InitFrames /\ [][NextFrames]_vars

\* Bound of the note lists handed to detectTempo.
MaxTempoNotes == 5

\* Onset distances: 0.05 s, 0.1 s, 0.3 s, 0.5 s, 8/15 s (112.5 BPM), 0.7 s,
\* 1 s, 4 s and 5 s.
TempoDeltas ==
    {22050, 44100, 132300, 220500, 235200, 308700, 441000, 1764000, 2205000}

AnalyzedNote(f, a, s, d, c) ==
    [ frequency  |-> f,
      amplitude  |-> a,
      startTime  |-> s,
      duration   |-> d,
      pitch      |-> Server_frequencyToPitch(f).pitch,
      octave     |-> Server_frequencyToPitch(f).octave,
      confidence |-> c ]

PushTempoNote ==
    /\ returned = <<>>
    /\ Len(inputNotes) < MaxTempoNotes
    /\ \E delta \in TempoDeltas :
          LET start == IF Len(inputNotes) = 0 THEN 0
                       ELSE inputNotes[Len(inputNotes)].startTime + delta
          IN  inputNotes' =
                  Append(inputNotes, AnalyzedNote(29366, 50, start, 22050, 80))
    /\ UNCHANGED <<callVars, mapperVars, frameSamples, audioRate,
                   audioSamples, inputFrequency, returned>>

DetectTempo ==
    /\ ~Called("Server_detectTempo")
    /\ Return("Server_detectTempo", Server_detectTempo(inputNotes))
    /\ UNCHANGED <<callVars, mapperVars, frameSamples, audioRate,
                   audioSamples, inputNotes, inputFrequency>>

\* The onsets are drawn as the start times of the same list.
DetectTempoFromOnsets ==
    /\ ~Called("Onset_detectTempo")
    /\ Return("Onset_detectTempo",
              Onset_detectTempo([k \in 1..Len(inputNotes) |->
                                    inputNotes[k].startTime]))
    /\ UNCHANGED <<callVars, mapperVars, frameSamples, audioRate,
                   audioSamples, inputNotes, inputFrequency>>

InitTempo ==
    /\ MapperIdle
    /\ audioRate = 44100
    /\ audioSamples = <<>>
    /\ frameSamples = <<>>
    /\ inputNotes = <<>>
    /\ inputFrequency = 0
    /\ returned = <<>>
    /\ NoCalls

NextTempo == PushTempoNote \/ DetectTempo \/ DetectTempoFromOnsets

\* A list of note onsets, measured by either tempo estimator.
SpecTempo == InitTempo /\ [][NextTempo]_vars

\* Bound of the note lists built for detectKey.
MaxKeyNotes == 3

\* A note of the key tests: named by frequencyToPitch, or relabelled with
\* the flat spelling of the same pitch.
KeyNote(f, d, c, start) == AnalyzedNote(f, 80, start, d, c)

FlatKeyNote(f, d, c, start) ==
    LET note == KeyNote(f, d, c, start)
    IN  [note EXCEPT !.pitch = IF note.pitch = "A#" THEN "Bb"
                               ELSE IF note.pitch = "D#" THEN "Eb"
                               ELSE note.pitch]

\* D4, D#4, G4, A#4 and C5, lasting 0.5 s or 0.8 s.
KeyFreqs == {29366, 31113, 39200, 46616, 52325}

KeyDurations == {220500, 352800}

RECURSIVE PhraseFrom(_, _)
PhraseFrom(steps, start) ==
    IF Len(steps) = 0 THEN <<>>
    ELSE <<KeyNote(steps[1][1], steps[1][2], 80, start)>> \o
         PhraseFrom(Tail(steps), start + steps[1][2])

\* G, Bb, C, D, F, G and D, F, G, A, C, D: 0.5 s each, the last 0.8 s.
GPhrase ==
    PhraseFrom(<< <<39200, 220500>>, <<46616, 220500>>, <<52325, 220500>>,
                  <<58733, 220500>>, <<69846, 220500>>, <<39200, 352800>> >>, 0)

DPhrase ==
    PhraseFrom(<< <<29366, 220500>>, <<34923, 220500>>, <<39200, 220500>>,
                  <<44000, 220500>>, <<52325, 220500>>, <<29366, 352800>> >>, 0)

KeyNextStart ==
    IF Len(inputNotes) = 0 THEN 0
    ELSE inputNotes[Len(inputNotes)].startTime
             + inputNotes[Len(inputNotes)].duration

PushKeyNote ==
    /\ returned = <<>>
    /\ Len(inputNotes) < MaxKeyNotes
    /\ \/ \E f \in KeyFreqs, d \in KeyDurations :
             inputNotes' = Append(inputNotes, KeyNote(f, d, 80, KeyNextStart))
       \/ \E f \in {31113, 46616}, d \in KeyDurations :
             inputNotes' = Append(inputNotes, FlatKeyNote(f, d, 80, KeyNextStart))
       \/ inputNotes' = Append(inputNotes, KeyNote(44000, 220500, 50, KeyNextStart))
    /\ UNCHANGED <<callVars, mapperVars, frameSamples, audioRate,
                   audioSamples, inputFrequency, returned>>

DetectKey ==
    /\ ~Called("Server_detectKey")
    /\ Return("Server_detectKey", Server_detectKey(inputNotes))
    /\ UNCHANGED <<callVars, mapperVars, frameSamples, audioRate,
                   audioSamples, inputNotes, inputFrequency>>

DetectKeyByDuration ==
    /\ ~Called("Onset_detectKey")
    /\ Return("Onset_detectKey", Onset_detectKey(inputNotes))
    /\ UNCHANGED <<callVars, mapperVars, frameSamples, audioRate,
                   audioSamples, inputNotes, inputFrequency>>

InitKey ==
    /\ MapperIdle
    /\ audioRate = 44100
    /\ audioSamples = <<>>
    /\ frameSamples = <<>>
    /\ inputNotes \in {<<>>, GPhrase, DPhrase}
    /\ inputFrequency = 0
    /\ returned = <<>>
    /\ NoCalls

NextKey == PushKeyNote \/ DetectKey \/ DetectKeyByDuration

\* A short note list or a test phrase, given to either key estimator.
SpecKey == InitKey /\ [][NextKey]_vars

InitPitch ==
    /\ MapperIdle
    /\ audioRate = 44100
    /\ audioSamples = <<>>
    /\ frameSamples = <<>>
    /\ inputNotes = <<>>
    /\ inputFrequency \in PitchProbeFreqs
    /\ returned = <<>>
    /\ NoCalls

NextPitch == FrequencyToPitch \/ ServerFrequencyToPitch

\* One frequency, labelled by either analyzer.
SpecPitch == InitPitch /\ [][NextPitch]_vars

(***************************************************************************)
(* A caller that makes several calls and keeps every result.  Each call is *)
(* recorded with its argument as handed over, the argument as the call     *)
(* left it, the returned value, and the identities of the mutable objects  *)
(* (object and array literals, results of map and filter) reachable from   *)
(* the returned value.  An object is identified by the call that created   *)
(* it and the place it takes in the result; call 0 is class initialisation.*)
(***************************************************************************)
\* Bound of the number of calls.
MaxCalls == 2

Object(call, site, phrase, note) ==
    [call |-> call, site |-> site, phrase |-> phrase, note |-> note]

\* A sentinel note has no ornaments and techniques arrays.
NoteObjects(call, k, j, note) ==
    { Object(call, site, k, j) :
          site \in {"note"} \cup ({"ornaments", "techniques"} \cap DOMAIN note) }

ObjectsAt(call, s) ==
    { Object(call, "score", 0, 0), Object(call, "phrases", 0, 0) } \cup
    { Object(call, site, k, 0) :
          site \in {"phrase", "notes"}, k \in 1..Len(s.phrases) } \cup
    UNION { UNION { NoteObjects(call, k, j, s.phrases[k].notes[j]) :
                        j \in 1..Len(s.phrases[k].notes) } :
                k \in 1..Len(s.phrases) }

\* Variant: the sentinel score is one object built at class initialisation.
ScoreObjectsStaticSentinel(call, s) ==
    ObjectsAt(IF s = SentinelScore THEN 0 ELSE call, s)

\* Every literal of convertToKinko, convertPhrase, convertNote,
\* detectOrnaments and detectTechniques is evaluated during the call.
ScoreObjects(call, s) == ObjectsAt(call, s)

ChartObjects(call, chart) ==
    { Object(call, "chart", 0, 0) } \cup
    { Object(call, "entry", k, 0) : k \in 1..Len(chart) }

\* The lists handed to convertToKinko: empty, out of range, one phrase,
\* two phrases, and a list with an out-of-range note between two others.
CallNoteLists ==
    { <<>>,
      <<createDetectedNote(10000, 50, 80, 0)>>,
      <<createDetectedNote(29366, 50, 80, 0)>>,
      <<createDetectedNote(29366, 50, 80, 0),
        createDetectedNote(88000, 50, 80, 50)>>,
      <<createDetectedNote(29366, 50, 80, 0),
        createDetectedNote(200000, 50, 80, 50),
        createDetectedNote(34923, 300, 90, 100)>> }

WesternNote(pitch, octave, duration) ==
    [pitch |-> pitch, octave |-> octave, duration |-> duration]

\* C2 is below the instrument's range.
WesternLists ==
    { <<>>,
      <<WesternNote("C", 2, 100)>>,
      <<WesternNote("D", 4, 100)>>,
      <<WesternNote("D", 4, 100), WesternNote("Bb", 4, 50),
        WesternNote("A", 5, 300)>> }

CallBuffers ==
    LET ro  == [frequency |-> 29366, amplitude |-> 50, confidence |-> 70]
        chi == [frequency |-> 44000, amplitude |-> 50, confidence |-> 60]
    IN  { <<>>, <<ro, ro, ro, ro, ro>>, <<ro, ro, chi, chi, chi>> }

Call(op, input, inputAfter, result, objects) ==
    [op |-> op, input |-> input, inputAfter |-> inputAfter,
     result |-> result, objects |-> objects]

\* filter and map build new arrays and no element of detectedNotes is
\* assigned; the table is only read.
CallConvertToKinko ==
    /\ Len(calls) < MaxCalls
    /\ \E notes \in CallNoteLists :
          LET kinkoScore == convertToKinko(notes)
          IN  /\ detectedNotes' = notes
              /\ calls' = Append(calls,
                     Call("convertToKinko", notes, notes, kinkoScore,
                          ScoreObjects(Len(calls) + 1, kinkoScore)))
    /\ UNCHANGED <<notationTable, score, kinkoNote, closest, analyzerVars>>

CallConvertWesternToKinko ==
    /\ Len(calls) < MaxCalls
    /\ \E westernNotes \in WesternLists :
          LET kinkoScore == convertWesternToKinko(westernNotes)
          IN  calls' = Append(calls,
                  Call("convertWesternToKinko", westernNotes, westernNotes,
                       kinkoScore, ScoreObjects(Len(calls) + 1, kinkoScore)))
    /\ UNCHANGED <<notationTable, mapperVars, analyzerVars>>

CallGetFingeringChart ==
    /\ Len(calls) < MaxCalls
    /\ calls' = Append(calls,
           Call("getFingeringChart", <<>>, <<>>, getFingeringChart,
                ChartObjects(Len(calls) + 1, getFingeringChart)))
    /\ UNCHANGED <<notationTable, mapperVars, analyzerVars>>

CallDetectNotesFromSamples ==
    /\ Len(calls) < MaxCalls
    /\ \E samples \in CallBuffers, sampleRate \in {44100, 10240} :
          /\ audioSamples' = samples
          /\ audioRate' = sampleRate
          /\ calls' = Append(calls,
                 Call("detectNotesFromSamples", <<samples, sampleRate>>,
                      <<samples, sampleRate>>,
                      Server_detectNotesFromSamples(samples, sampleRate), {}))
    /\ UNCHANGED <<notationTable, mapperVars, frameSamples, inputNotes,
                   inputFrequency, returned>>

CallDetectTempo ==
    /\ Len(calls) < MaxCalls
    /\ \E noteSeq \in {<<>>, GPhrase, DPhrase} :
          /\ inputNotes' = noteSeq
          /\ calls' = Append(calls,
                 Call("detectTempo", noteSeq, noteSeq,
                      Server_detectTempo(noteSeq), {}))
    /\ UNCHANGED <<notationTable, mapperVars, frameSamples, audioRate,
                   audioSamples, inputFrequency, returned>>

CallDetectKey ==
    /\ Len(calls) < MaxCalls
    /\ \E noteSeq \in {<<>>, GPhrase, DPhrase} :
          /\ inputNotes' = noteSeq
          /\ calls' = Append(calls,
                 Call("detectKey", noteSeq, noteSeq,
                      Server_detectKey(noteSeq), {}))
    /\ UNCHANGED <<notationTable, mapperVars, frameSamples, audioRate,
                   audioSamples, inputFrequency, returned>>

NextCalls ==
    \/ CallConvertToKinko
    \/ CallConvertWesternToKinko
    \/ CallGetFingeringChart
    \/ CallDetectNotesFromSamples
    \/ CallDetectTempo
    \/ CallDetectKey

\* A few calls in any order, repeated inputs included.
SpecCalls == Init /\ [][NextCalls]_vars

(***************************************************************************)
(* consolidateNotes called on frames that were analyzed in any order.  The *)
(* sort is in place, so the call leaves the caller's list sorted.          *)
(***************************************************************************)
\* Bound of the number of frames handed to consolidateNotes.
MaxShuffled == 4

\* The hops at which a frame can start.
ShuffleSlots == 0..4

\* D4, a tone 6.34 Hz above D4, and A4.
ShuffleKinds ==
    { [frequency |-> 29366, amplitude |-> 50, confidence |-> 70],
      [frequency |-> 30000, amplitude |-> 60, confidence |-> 90],
      [frequency |-> 44000, amplitude |-> 50, confidence |-> 60] }

\* The note pushed by the analysis loop for the frame starting at hop k.
FrameNote(frame, k, sampleRate) ==
    AnalyzedNote(frame.frequency, frame.amplitude,
                 Seconds(k * hopSize, sampleRate),
                 Seconds(hopSize, sampleRate), frame.confidence)

PushShuffledFrame ==
    /\ calls = <<>>
    /\ Len(inputNotes) < MaxShuffled
    /\ \E frame \in ShuffleKinds, k \in ShuffleSlots :
          /\ \A j \in 1..Len(inputNotes) :
                 inputNotes[j].startTime # Seconds(k * hopSize, audioRate)
          /\ inputNotes' = Append(inputNotes, FrameNote(frame, k, audioRate))
    /\ UNCHANGED <<callVars, mapperVars, frameSamples, audioRate,
                   audioSamples, inputFrequency, returned>>

ConsolidateNotes ==
    /\ calls = <<>>
    /\ inputNotes' = sortByStartTime(inputNotes)
    /\ calls' = Append(calls,
           Call("consolidateNotes", inputNotes, inputNotes',
                Server_consolidateNotes(inputNotes), {}))
    /\ UNCHANGED <<notationTable, mapperVars, frameSamples, audioRate,
                   audioSamples, inputFrequency, returned>>

InitShuffle ==
    /\ MapperIdle
    /\ audioRate \in {22050, 10240}
    /\ audioSamples = <<>>
    /\ frameSamples = <<>>
    /\ inputNotes = <<>>
    /\ inputFrequency = 0
    /\ returned = <<>>
    /\ NoCalls

NextShuffle == PushShuffledFrame \/ ConsolidateNotes

\* Frames with distinct start times, listed in any order, consolidated once.
SpecShuffle == InitShuffle /\ [][NextShuffle]_vars

(***************************************************************************)
(* autocorrelationPitchDetection called on one short frame of samples, at  *)
(* 8 samples per second with the band 1 Hz .. 4 Hz: the periods 2 .. 8.    *)
(***************************************************************************)
\* Bound of the frame, in samples.
FrameLength == 8

SampleValues == {-1, 0, 1}

LagSampleRate == 8

LagMinFreq == 1

LagMaxFreq == 4

PushSample ==
    /\ returned = <<>>
    /\ Len(frameSamples) < FrameLength
    /\ \E sample \in SampleValues :
          frameSamples' = Append(frameSamples, sample)
    /\ UNCHANGED <<callVars, mapperVars, audioRate, audioSamples, inputNotes,
                   inputFrequency, returned>>

AutocorrelationPitchDetection ==
    /\ returned = <<>>
    /\ Return("Server_autocorrelationPitchDetection",
              Server_autocorrelationPitchDetection(frameSamples, audioRate,
                                                   LagMinFreq, LagMaxFreq))
    /\ UNCHANGED <<callVars, mapperVars, frameSamples, audioRate,
                   audioSamples, inputNotes, inputFrequency>>

InitLag ==
    /\ MapperIdle
    /\ audioRate = LagSampleRate
    /\ audioSamples = <<>>
    /\ frameSamples = <<>>
    /\ inputNotes = <<>>
    /\ inputFrequency = 0
    /\ returned = <<>>
    /\ NoCalls

NextLag == PushSample \/ AutocorrelationPitchDetection

\* One frame of a few samples, analyzed once.
SpecLag == InitLag /\ [][NextLag]_vars

(***************************************************************************)
(* Vocabulary of the properties.                                           *)
(***************************************************************************)
Converted == score # NoResult

\* The input notes with 250 Hz <= frequency <= 1200 Hz, in input order.
FilteredNotes ==
    SelectSeq(detectedNotes, LAMBDA n : n.frequency >= 25000 /\ n.frequency <= 120000)

\* The notes of a score, phrase after phrase.
ScoreNotes(s) == Flat([k \in 1..Len(s.phrases) |-> s.phrases[k].notes])

\* Positions (in the concatenated note sequence) at which a phrase ends.
RECURSIVE PhraseEnds(_)
PhraseEnds(phrases) ==
    IF Len(phrases) = 0 THEN {}
    ELSE LET front == SubSeq(phrases, 1, Len(phrases) - 1)
         IN  PhraseEnds(front) \cup {Len(Flat(phrases))}

\* Silence between note k and note k + 1 of a list.
GapAfter(notes, k) == notes[k + 1].startTime - EndOf(notes[k])

Has(seq, x) == \E k \in 1..Len(seq) : seq[k] = x

\* The nearest equal-tempered semitone of f, counted from A4 = 440 Hz.
SemitonesAboveA4(f) ==
    CHOOSE n \in -57..39 :
        /\ NoteFloor[n + 58] <= f
        /\ f < NoteFloor[n + 59]

\* The frames the server's analysis loop keeps, before consolidation.
Frames == Server_frameLoop(audioSamples, audioRate, 0, <<>>)

\* The duration of one hop, in ticks.
Hop == Seconds(hopSize, audioRate)

\* The distances between consecutive start times of the input notes.
OnsetIntervals ==
    [k \in 1..(Len(inputNotes) - 1) |->
        inputNotes[k + 1].startTime - inputNotes[k].startTime]

\* m is the middle element of the intervals: at most half of them are
\* smaller and more than half are not greater (the upper of the two middle
\* ones when their number is even).
IsMedian(intervals, m) ==
    LET n == Len(intervals)
    IN  /\ Has(intervals, m)
        /\ Cardinality({k \in 1..n : intervals[k] < m}) <= n \div 2
        /\ Cardinality({k \in 1..n : intervals[k] <= m}) > n \div 2

\* tempo is 60 / m beats per minute rounded to the nearest integer (halves
\* up) and then clamped to 60..180.
IsClampedBpm(tempo, m) ==
    LET q   == (60 * TicksPerSecond) \div m
        r   == (60 * TicksPerSecond) % m
        bpm == IF 2 * r < m THEN q ELSE q + 1
    IN  tempo = IF bpm < 60 THEN 60 ELSE IF bpm > 180 THEN 180 ELSE bpm

\* The score of a candidate key: the weights of the notes whose pitch name
\* is listed in the key's scale.
ListedWeight(weights, key) ==
    LET listed == {scalePatterns[key][k] : k \in 1..5}
        RECURSIVE Sum(_)
        Sum(i) == IF i = 0 THEN 0
                  ELSE Sum(i - 1) + IF inputNotes[i].pitch \in listed
                                    THEN weights[i] ELSE 0
    IN  Sum(Len(inputNotes))

\* best is the first candidate, in the order D, Eb, F, G, A, Bb, whose score
\* is maximal.
FirstMaximal(weights, best) ==
    \E b \in 1..Len(shakuhachiKeys) :
        /\ shakuhachiKeys[b] = best
        /\ \A k \in 1..Len(shakuhachiKeys) :
               /\ ListedWeight(weights, shakuhachiKeys[k])
                      <= ListedWeight(weights, best)
               /\ k < b => ListedWeight(weights, shakuhachiKeys[k])
                               < ListedWeight(weights, best)

\* Pitch classes 0..11 of the note names, sharps and flats alike.
PitchClass ==
    [ C |-> 0, D |-> 2, E |-> 4, F |-> 5, G |-> 7, A |-> 9, B |-> 11 ] @@
    ("C#" :> 1) @@ ("D#" :> 3) @@ ("F#" :> 6) @@ ("G#" :> 8) @@ ("A#" :> 10) @@
    [ Db |-> 1, Eb |-> 3, Gb |-> 6, Ab |-> 8, Bb |-> 10 ]

\* The weights of the notes whose pitch class belongs to the key's scale.
ScaleWeight(key) ==
    LET classes == {PitchClass[scalePatterns[key][k]] : k \in 1..5}
        RECURSIVE Sum(_)
        Sum(i) == IF i = 0 THEN 0
                  ELSE Sum(i - 1) + IF PitchClass[inputNotes[i].pitch] \in classes
                                    THEN inputNotes[i].duration * inputNotes[i].confidence
                                    ELSE 0
    IN  Sum(Len(inputNotes))

NamedByFrequencyToPitch ==
    \A k \in 1..Len(inputNotes) :
        inputNotes[k].pitch = Server_frequencyToPitch(inputNotes[k].frequency).pitch

SetMax(S) == CHOOSE x \in S : \A y \in S : y <= x

\* The first frame of the note that frame k is merged into: frame k joins
\* the note of frame k - 1 iff it is less than 10 Hz from that note's first
\* frame and starts less than 0.1 s after the end of frame k - 1.
RECURSIVE RunStart(_, _)
RunStart(frames, k) ==
    IF k = 1 THEN 1
    ELSE LET first == RunStart(frames, k - 1)
         IN  IF /\ Abs(frames[k].frequency - frames[first].frequency) < 1000
                /\ 10 * (frames[k].startTime - EndOf(frames[k - 1]))
                       < TicksPerSecond
             THEN first
             ELSE k

\* Frame k is the last frame of its note.
RunEnds(frames, k) ==
    k = Len(frames) \/ RunStart(frames, k + 1) = k + 1

\* The note made of the frames first..last.
RunNote(frames, first, last) ==
    [ frames[first] EXCEPT
        !.duration   = frames[last].startTime + frames[last].duration
                           - frames[first].startTime,
        !.amplitude  = SetMax({frames[k].amplitude : k \in first..last}),
        !.confidence = SetMax({frames[k].confidence : k \in first..last}) ]

\* The notes of at least 0.05 s among the notes of the frames, in time order.
RunNotes(frames) ==
    LET ends == SelectSeq([k \in 1..Len(frames) |-> k],
                    LAMBDA k :
                        /\ RunEnds(frames, k)
                        /\ 20 * RunNote(frames, RunStart(frames, k), k).duration
                               >= TicksPerSecond)
    IN  [r \in 1..Len(ends) |->
            RunNote(frames, RunStart(frames, ends[r]), ends[r])]

\* The notes of a list with distinct start times, earliest first.
TimeOrdered(noteSeq) ==
    LET rank(k) == 1 + Cardinality({j \in 1..Len(noteSeq) :
                        noteSeq[j].startTime < noteSeq[k].startTime})
    IN  [r \in 1..Len(noteSeq) |->
            noteSeq[CHOOSE k \in 1..Len(noteSeq) : rank(k) = r]]

SetMin(S) == CHOOSE x \in S : \A y \in S : x <= y

\* The candidate periods of the frame held in frameSamples.
Lags == (audioRate \div LagMaxFreq)..(audioRate \div LagMinFreq)

\* The normalized autocorrelation of the frame at a lag, as a fraction: the
\* products of the samples a lag apart over the energy of the samples that
\* have a partner.
LagCorrelation(lag) ==
    LET N == Len(frameSamples)
        RECURSIVE Dot(_, _)
        Dot(n, shift) ==
            IF n <= 0 THEN 0
            ELSE Dot(n - 1, shift) + frameSamples[n] * frameSamples[n + shift]
        energy == Dot(N - lag, 0)
    IN  Fraction(Dot(N - lag, lag), IF energy > 0 THEN energy ELSE 1)

\* The lags whose normalized autocorrelation is the greatest.
TiedLags ==
    {lag \in Lags :
        \A other \in Lags : ~Greater(LagCorrelation(other), LagCorrelation(lag))}

\* A pitch is reported: the greatest correlation exceeds 0.3.
PitchFound ==
    \E lag \in Lags : Greater(LagCorrelation(lag), Fraction(3, 10))

\* The frame repeats with period p.
Periodic(p) ==
    /\ Len(frameSamples) > 2 * p
    /\ \A n \in 1..(Len(frameSamples) - p) :
           frameSamples[n + p] = frameSamples[n]

\* The phrases of a score as lists of notes.
PhraseNotes(s) == [j \in 1..Len(s.phrases) |-> s.phrases[j].notes]

\* The position, in the concatenated notes, of the last note of phrase j.
LastPosition(phrases, j) == Len(Flat(SubSeq(phrases, 1, j)))

\* The in-range notes as segmentation and the post-pass group them.
Segmented == segmentPhrases(FilteredNotes)

Grouped == groupIntoPhrases(FilteredNotes)

\* The calls whose result is a score.
ScoreCalls ==
    {k \in 1..Len(calls) :
        calls[k].op \in {"convertToKinko", "convertWesternToKinko"}}

\* C1: every returned score has at least one phrase, and every phrase of it
\* has at least one note, whatever the input list (empty, out of range, mixed).
C1_NeverEmpty ==
    Converted =>
        /\ Len(score.phrases) >= 1
        /\ \A k \in 1..Len(score.phrases) : Len(score.phrases[k].notes) >= 1

\* C1 witness: a converted list mixing out-of-range and in-range notes that
\* yields several phrases.
C1_Witness ==
    /\ Converted
    /\ Len(FilteredNotes) >= 1
    /\ Len(FilteredNotes) < Len(detectedNotes)
    /\ Len(score.phrases) >= 2

\* C2: a non-empty input list yields exactly one KinkoNote per input note, in
\* input order, with pitch equal to the input frequency, out-of-range notes
\* being mapped to the closest table entry instead of being dropped.
C2_OneNotePerInput ==
    (Converted /\ Len(detectedNotes) > 0) =>
        LET out == ScoreNotes(score)
        IN  /\ Len(out) = Len(detectedNotes)
            /\ \A k \in 1..Len(out) :
                  /\ out[k].pitch = detectedNotes[k].frequency
                  /\ out[k].fingering =
                         findClosestKinkoNote(detectedNotes[k].frequency).fingering

\* C3: no phrase of a returned score holds more than 8 notes.
C3_PhraseCap8 ==
    Converted =>
        \A k \in 1..Len(score.phrases) : Len(score.phrases[k].notes) <= 8

\* C4 as stated: two consecutive in-range notes more than 0.8 s apart are
\* always in different phrases of the score.
C4_GapAlwaysSplits ==
    (Converted /\ Len(FilteredNotes) >= 2) =>
        \A k \in 1..(Len(FilteredNotes) - 1) :
            GapAfter(FilteredNotes, k) > 80 =>
                k \in PhraseEnds([j \in 1..Len(score.phrases) |-> score.phrases[j].notes])

\* C4 amended: two consecutive in-range notes more than 0.8 s apart are in
\* different phrases of the score, unless the gap is below 1.0 s and the
\* earlier note stands alone in its phrase after segmentation (the post-pass
\* may then merge it into the next phrase); so a gap of 1.0 s or more, such
\* as 1.2 s, always separates.
C4_GapSplitsUnlessMergedSingle ==
    (Converted /\ Len(FilteredNotes) >= 2) =>
        LET ends    == PhraseEnds([j \in 1..Len(score.phrases) |->
                                      score.phrases[j].notes])
            segEnds == PhraseEnds(segmentPhrases(FilteredNotes)) \cup {0}
        IN  \A k \in 1..(Len(FilteredNotes) - 1) :
                GapAfter(FilteredNotes, k) > 80 =>
                    \/ k \in ends
                    \/ /\ GapAfter(FilteredNotes, k) < 100
                       /\ k \in segEnds
                       /\ (k - 1) \in segEnds

\* C4 witness: two notes of one phrase followed, 0.9 s later, by a third
\* note that the score puts in a second phrase.
C4_Witness ==
    /\ Converted
    /\ Len(FilteredNotes) = 3
    /\ GapAfter(FilteredNotes, 1) = 0
    /\ GapAfter(FilteredNotes, 2) = 90
    /\ Len(score.phrases) = 2
    /\ Len(score.phrases[1].notes) = 2

\* C5: findClosestKinkoNote returns a table entry at minimal absolute Hz
\* distance from the frequency, and on a tie the tied entry that comes first
\* in table order.
C5_ClosestByHz ==
    (closest # NoResult) =>
        LET f    == detectedNotes[1].frequency
            dist == [k \in 1..Len(KINKO_KEYS) |->
                        Abs(f - KINKO_NOTES[KINKO_KEYS[k]].frequency)]
        IN  \E k \in 1..Len(KINKO_KEYS) :
                /\ closest = KINKO_NOTES[KINKO_KEYS[k]]
                /\ \A j \in 1..Len(KINKO_KEYS) : dist[k] <= dist[j]
                /\ \A j \in 1..(k - 1) : dist[j] > dist[k]

\* C5 witness: 330.18 Hz is equally far from D#4 (311.13, sixth entry) and
\* F4 (349.23, second entry); the second entry is returned.
C5_Witness ==
    /\ closest # NoResult
    /\ detectedNotes[1].frequency = 33018
    /\ closest.fingering = "tsu"

\* C6: a single note at an entry's canonical frequency converts to one phrase
\* with one note carrying that entry's katakana and fingering, the canonical
\* frequency as pitch, and neither 'meri' nor 'kari'.
C6_RoundTrip ==
    (Converted /\ Len(detectedNotes) = 1) =>
        \A key \in DOMAIN KINKO_NOTES :
            detectedNotes[1].frequency = KINKO_NOTES[key].frequency =>
                /\ Len(score.phrases) = 1
                /\ Len(score.phrases[1].notes) = 1
                /\ LET n == score.phrases[1].notes[1]
                   IN  /\ n.katakana = KINKO_NOTES[key].katakana
                       /\ n.fingering = KINKO_NOTES[key].fingering
                       /\ n.pitch = KINKO_NOTES[key].frequency
                       /\ ~Has(n.techniques, "meri")
                       /\ ~Has(n.techniques, "kari")

\* C6 witness: the last entry, C6 at 1046.50 Hz, converted to kan-ri.
C6_Witness ==
    /\ Converted
    /\ detectedNotes[1].frequency = 104650
    /\ score.phrases[1].notes[1].fingering = "kan-ri"

\* C7: when no note survives the range filter (empty input included) the
\* score is the sentinel: one phrase with breath = true holding one note with
\* katakana ro, fingering 'ro', pitch 293.66 and duration 1.0.
C7_Sentinel ==
    (Converted /\ Len(FilteredNotes) = 0) =>
        score.phrases =
            << [ notes  |-> << [ katakana |-> "U+30ED", fingering |-> "ro",
                                 pitch |-> 29366, duration |-> 100 ] >>,
                 breath |-> TRUE ] >>

\* C7 witness: a non-empty list whose notes are all out of range, converted.
C7_Witness ==
    /\ Converted
    /\ Len(detectedNotes) >= 2
    /\ Len(FilteredNotes) = 0
    /\ Len(score.phrases) = 1

C10_BendDirection ==
    (Converted /\ Len(detectedNotes) = 1) =>
        LET f == detectedNotes[1].frequency
            t == score.phrases[1].notes[1].techniques
        IN  /\ f \in {28500, 28000, 27500} => Has(t, "meri")
            /\ f \in {31000, 31500} => Has(t, "kari")

\* C11: an in-range note lasting 1.8 s, 2.5 s or 2.8 s with confidence below
\* 0.6 carries both the long-tone mark and the vibrato mark in the score.
C11_LongToneAndVibrato ==
    ( /\ Converted
      /\ Len(FilteredNotes) = 1
      /\ detectedNotes[1].duration \in {180, 250, 280}
      /\ detectedNotes[1].confidence < 60 ) =>
        LET o == score.phrases[1].notes[1].ornaments
        IN  Has(o, "U+2014") /\ Has(o, "U+2312")

C13_MinimumDuration ==
    Called("Server_detectNotesFromSamples") =>
        LET out    == returned["Server_detectNotesFromSamples"]
            closed == Server_consolidateNotesNoMinimum(Frames)
        IN  /\ out \in Seq({out[k] : k \in 1..Len(out)})
            /\ \A k \in 1..Len(out) : 20 * out[k].duration >= TicksPerSecond
            /\ out = SelectSeq(closed,
                               LAMBDA n : 20 * n.duration >= TicksPerSecond)
            /\ audioRate = 44100 =>
                   \A k \in 1..Len(closed) :
                       Has(out, closed[k]) <=> closed[k].duration >= 5 * Hop

\* C13 witness: a buffer in which one closed note was dropped for being too
\* short and a later one was emitted.
C13_Witness ==
    /\ Called("Server_detectNotesFromSamples")
    /\ LET out    == returned["Server_detectNotesFromSamples"]
           closed == Server_consolidateNotesNoMinimum(Frames)
       IN  /\ Len(out) >= 1
           /\ Len(closed) > Len(out)
           /\ closed[1] # out[1]

\* C14: detectTempo returns an integer BPM within 60..180; exactly 100 with
\* fewer than 4 notes (onsets) or, for the note-onset estimator, when no
\* interval lies strictly between 0.1 s and 4.0 s; otherwise
\* round(60 / median interval) clamped to 60..180, the median being taken
\* over the intervals the estimator keeps.
C14_TempoContract ==
    /\ Called("Server_detectTempo") =>
          LET tempo == returned["Server_detectTempo"]
              kept  == SelectSeq(OnsetIntervals,
                           LAMBDA x : /\ 10 * x > TicksPerSecond
                                      /\ x < 4 * TicksPerSecond)
          IN  /\ tempo \in 60..180
              /\ IF Len(inputNotes) < 4 \/ Len(kept) = 0
                 THEN tempo = 100
                 ELSE \E k \in 1..Len(kept) :
                          IsMedian(kept, kept[k]) /\ IsClampedBpm(tempo, kept[k])
    /\ Called("Onset_detectTempo") =>
          LET tempo == returned["Onset_detectTempo"]
              all   == OnsetIntervals
          IN  /\ tempo \in 60..180
              /\ IF Len(inputNotes) < 4
                 THEN tempo = 100
                 ELSE \E k \in 1..Len(all) :
                          IsMedian(all, all[k]) /\ IsClampedBpm(tempo, all[k])

\* C14 witness: five notes whose four intervals include filtered ones; the
\* note-onset estimator measured an unclamped tempo and the two estimators
\* disagree.
C14_Witness ==
    /\ Called("Server_detectTempo")
    /\ Called("Onset_detectTempo")
    /\ Len(inputNotes) = 5
    /\ returned["Server_detectTempo"] \in 61..179
    /\ returned["Server_detectTempo"] # 100
    /\ returned["Server_detectTempo"] # returned["Onset_detectTempo"]

\* C15: detectKey returns the first of the candidates D, Eb, F, G, A, Bb
\* whose score is maximal (a later candidate wins only with a strictly
\* greater score), and 'D' for the empty list.
C15_FirstMaximalKey ==
    /\ Called("Server_detectKey") =>
          /\ FirstMaximal(Server_weights(inputNotes), returned["Server_detectKey"])
          /\ Len(inputNotes) = 0 => returned["Server_detectKey"] = "D"
    /\ Called("Onset_detectKey") =>
          /\ FirstMaximal(Onset_weights(inputNotes), returned["Onset_detectKey"])
          /\ Len(inputNotes) = 0 => returned["Onset_detectKey"] = "D"

\* C15 witness: a candidate after D was returned although a later candidate
\* has the same score (a flat-spelled Eb scores for Eb, F and Bb alike).
C15_Witness ==
    /\ Called("Server_detectKey")
    /\ returned["Server_detectKey"] \in {"Eb", "F", "G", "A"}
    /\ \E k \in 1..Len(shakuhachiKeys) :
          /\ shakuhachiKeys[k] # returned["Server_detectKey"]
          /\ ListedWeight(Server_weights(inputNotes), shakuhachiKeys[k])
                 = ListedWeight(Server_weights(inputNotes), returned["Server_detectKey"])

\* C16: with pitch names from frequencyToPitch, every note adds
\* duration * confidence to the score of every candidate key whose scale
\* contains its pitch class, flat-spelled degrees included; the phrase
\* G, Bb, C, D, F, G is therefore estimated as 'G'.
C16_FlatDegreesCount ==
    (Called("Server_detectKey") /\ NamedByFrequencyToPitch) =>
        /\ \A k \in 1..Len(shakuhachiKeys) :
               calculateKeyScore(
                   histogramLoop(inputNotes, Server_weights(inputNotes), 1, <<>>),
                   shakuhachiKeys[k])
                   = ScaleWeight(shakuhachiKeys[k])
        /\ inputNotes = GPhrase => returned["Server_detectKey"] = "G"

\* C17: given an empty (zero-length) sample buffer, the analysis fails with
\* an error instead of returning a result.
C17_EmptyBufferFailsFast ==
    (Called("Server_analyzeAudioBuffer") /\ SamplesLength(audioSamples) = 0) =>
        "error" \in DOMAIN returned["Server_analyzeAudioBuffer"]

\* C17 (amended): given an empty sample buffer, analyzeAudioBuffer raises no
\* error and returns the defaults: no notes, tempo 100, key 'D',
\* confidence 0.
C17_EmptyBufferGivesDefaults ==
    (Called("Server_analyzeAudioBuffer") /\ SamplesLength(audioSamples) = 0) =>
        returned["Server_analyzeAudioBuffer"] =
            [ notes |-> <<>>, tempo |-> 100, key |-> "D",
              confidence |-> Fraction(0, 1) ]

\* C17 witness: an empty buffer has been analyzed by the server, with a
\* stated duration that would have given another sample rate than 44100.
C17_Witness ==
    /\ Called("Server_analyzeAudioBuffer")
    /\ SamplesLength(audioSamples) = 0
    /\ audioRate # 44100
    /\ "error" \notin DOMAIN returned["Server_analyzeAudioBuffer"]

\* C18: AudioAnalyzer.analyzeAudioFile on decodable audio from which no note
\* is detected (empty buffer, silence, sub-threshold amplitude only) never
\* rejects: it resolves with notes = [], confidence = 0, key = 'D' and a
\* tempo greater than 0.
C18_NoNotesResolvesWithDefaults ==
    ( /\ Called("Client_analyzeAudioFile")
      /\ \A k \in 1..Len(audioSamples) :
             audioSamples[k].frequency = 0 \/ audioSamples[k].amplitude <= 1 ) =>
        LET result == returned["Client_analyzeAudioFile"]
        IN  /\ "error" \notin DOMAIN result
            /\ result.notes = <<>>
            /\ result.confidence = Fraction(0, 1)
            /\ result.key = "D"
            /\ result.tempo > 0

\* C19: frequencyToPitch labels a frequency with the pitch class and the
\* scientific octave of its nearest equal-tempered semitone: a pitch n
\* semitones above A4 = 440 Hz gets the name and octave of MIDI note 69 + n,
\* so 440 Hz is A4, 293.66 Hz is D4 and 523.25 Hz is C5.
C19_ScientificPitch ==
    \A op \in DOMAIN returned \cap {"frequencyToPitch", "Server_frequencyToPitch"} :
        LET r    == returned[op]
            midi == 69 + SemitonesAboveA4(inputFrequency)
        IN  /\ r.pitch = noteNames[(midi % 12) + 1]
            /\ r.octave = (midi \div 12) - 1
            /\ inputFrequency = 44000 => r = [pitch |-> "A", octave |-> 4]
            /\ inputFrequency = 29366 => r = [pitch |-> "D", octave |-> 4]
            /\ inputFrequency = 52325 => r = [pitch |-> "C", octave |-> 5]

\* C20: every phrase of every returned score has breath = TRUE, the sentinel
\* phrase of the fallback and the last phrase of the list included.
C20_BreathOnEveryPhrase ==
    Converted =>
        \A k \in 1..Len(score.phrases) : score.phrases[k].breath = TRUE

\* C20 witness: a conversion that produced three phrases, and therefore a
\* breath mark on a first, a middle and a last phrase.
C20_Witness ==
    /\ Converted
    /\ Len(score.phrases) = 3
    /\ \A k \in 1..3 : score.phrases[k].breath

C23_ExtensionRule ==
    Called("Server_detectNotesFromSamples") =>
        returned["Server_detectNotesFromSamples"] = RunNotes(Frames)

\* C23 witness: D4, a tone 6.34 Hz above, D4, then two frames exactly 10 Hz
\* above D4: the first three frames make one note with the amplitude and
\* confidence of the second frame, the last two make another.
C23_Witness ==
    /\ Called("Server_detectNotesFromSamples")
    /\ audioRate = 10240
    /\ Len(Frames) = 5
    /\ LET notes == returned["Server_detectNotesFromSamples"]
       IN  /\ Len(notes) = 2
           /\ notes[1].frequency = 29366
           /\ notes[1].duration = 3 * Hop
           /\ notes[1].amplitude = 60
           /\ notes[1].confidence = 90
           /\ Frames[3].amplitude = 50
           /\ notes[2].frequency = 30366
           /\ notes[2].startTime = 3 * Hop

\* C24: in a returned score every single-note phrase except the last is
\* followed by a gap of at least 1.0 s.
C24_SingleNotePhraseIsolated ==
    (Converted /\ Len(FilteredNotes) > 0) =>
        \A j \in 1..(Len(score.phrases) - 1) :
            Len(score.phrases[j].notes) = 1 =>
                GapAfter(FilteredNotes, LastPosition(PhraseNotes(score), j)) >= 100

\* C24 witness: a note alone in the first phrase, 1.2 s before a second note
\* that was merged with the third, 0.9 s after it.
C24_Witness ==
    /\ Converted
    /\ Len(FilteredNotes) = 3
    /\ GapAfter(FilteredNotes, 1) = 120
    /\ GapAfter(FilteredNotes, 2) = 90
    /\ Len(score.phrases) = 2
    /\ Len(score.phrases[1].notes) = 1
    /\ Len(score.phrases[2].notes) = 2

\* C25 as stated: when several lags attain the greatest normalized
\* autocorrelation, the reported frequency is that of the longest of them.
C25_LongestTiedPeriod ==
    (Called("Server_autocorrelationPitchDetection") /\ PitchFound) =>
        returned["Server_autocorrelationPitchDetection"]
            = Fraction(audioRate, SetMax(TiedLags))

\* C25 amended: when several lags attain the greatest normalized
\* autocorrelation, the reported frequency is that of the shortest of them,
\* the highest tied frequency; for a frame exactly periodic with period p,
\* where the lags p and 2p tie, the lag p is chosen.
C25_ShortestTiedPeriod ==
    (Called("Server_autocorrelationPitchDetection") /\ PitchFound) =>
        /\ returned["Server_autocorrelationPitchDetection"]
               = Fraction(audioRate, SetMin(TiedLags))
        /\ \A p \in Lags :
               (Periodic(p) /\ {p, 2 * p} \subseteq TiedLags
                    /\ \A q \in Lags : q < p => ~Periodic(q)) =>
                   returned["Server_autocorrelationPitchDetection"]
                       = Fraction(audioRate, p)

\* C25 witness: the frame 1, -1, 1, -1, 1, -1, 1, -1 repeats every 2
\* samples, the lags 2, 4 and 6 tie at correlation 1, and 8 / 2 = 4 Hz is
\* reported.
C25_Witness ==
    /\ Called("Server_autocorrelationPitchDetection")
    /\ frameSamples = <<1, -1, 1, -1, 1, -1, 1, -1>>
    /\ TiedLags = {2, 4, 6}
    /\ returned["Server_autocorrelationPitchDetection"] = Fraction(8, 2)

\* C26: segmentation ends a phrase after every note whose successor is an
\* octave or more away, upwards (next >= 2 * current) or downwards
\* (next <= current / 2).
C26_OctaveJumpCloses ==
    Converted =>
        \A k \in 1..(Len(FilteredNotes) - 1) :
            LET current == FilteredNotes[k].frequency
                next    == FilteredNotes[k + 1].frequency
            IN  (next >= 2 * current \/ 2 * next <= current) =>
                    k \in PhraseEnds(Segmented)

\* C27: for a list with in-range notes, the phrases concatenated are the
\* in-range notes in input order, each once, and the score's phrases are
\* these phrases converted note by note.
C27_NotesPreserved ==
    (Converted /\ Len(FilteredNotes) > 0) =>
        /\ Flat(Segmented) = FilteredNotes
        /\ Flat(Grouped) = FilteredNotes
        /\ Len(score.phrases) = Len(Grouped)
        /\ \A k \in 1..Len(Grouped) :
               score.phrases[k].notes =
                   [j \in 1..Len(Grouped[k]) |-> convertNote(Grouped[k][j])]

\* C27 witness: a list with an out-of-range note, of which the post-pass
\* merged a single-note phrase into the next one.
C27_Witness ==
    /\ Converted
    /\ Len(FilteredNotes) = 2
    /\ Len(detectedNotes) = 3
    /\ Len(Segmented) = 2
    /\ Len(score.phrases) = 1

\* C28: segmentation gives phrases of at most 8 notes and no phrase of a
\* returned score holds more than 9 notes.
C28_PhraseCap9 ==
    Converted =>
        /\ \A k \in 1..Len(Segmented) : Len(Segmented[k]) <= 8
        /\ \A k \in 1..Len(score.phrases) : Len(score.phrases[k].notes) <= 9

\* C28 witness: a phrase of 9 notes, a single note merged into a full
\* phrase of 8.
C28_Witness ==
    /\ Converted
    /\ Len(Segmented) >= 2
    /\ Len(Segmented[1]) = 1
    /\ Len(Segmented[2]) = 8
    /\ Len(score.phrases[1].notes) = 9

\* C29: for a list with in-range notes the post-pass keeps at least one
\* phrase, the last note ends the last kept phrase, and the score has
\* exactly the kept phrases (the one-phrase fallback is not taken).
C29_FallbackNeverTaken ==
    (Converted /\ Len(FilteredNotes) > 0) =>
        LET consolidated == consolidateLoop(Segmented, 1, <<>>)[2]
        IN  /\ Len(consolidated) > 0
            /\ LET last == consolidated[Len(consolidated)]
               IN  last[Len(last)] = FilteredNotes[Len(FilteredNotes)]
            /\ Len(score.phrases) = Len(consolidated)

\* C29 witness: three notes that segmentation puts in three single-note
\* phrases, each less than 1.0 s before the next; the first is merged into
\* the second and the third is kept.
C29_Witness ==
    /\ Converted
    /\ Len(FilteredNotes) = 3
    /\ Len(Segmented) = 3
    /\ GapAfter(FilteredNotes, 1) < 100
    /\ GapAfter(FilteredNotes, 2) < 100
    /\ Len(score.phrases) = 2
    /\ Len(score.phrases[2].notes) = 1

\* C30: for frames with pairwise distinct start times, consolidateNotes
\* returns, whatever the order of its input list, the notes it returns for
\* the same frames listed in time order.
C30_OrderIndependent ==
    \A c \in 1..Len(calls) :
        calls[c].op = "consolidateNotes" =>
            /\ calls[c].result =
                   Server_consolidateNotes(TimeOrdered(calls[c].input))
            /\ calls[c].result = RunNotes(TimeOrdered(calls[c].input))

\* C30 witness: three frames of one tone handed over latest first, returned
\* as one note that starts with the earliest frame.
C30_Witness ==
    /\ Len(calls) = 1
    /\ calls[1].op = "consolidateNotes"
    /\ LET input == calls[1].input
       IN  /\ Len(input) = 3
           /\ input[1].startTime > input[2].startTime
           /\ input[2].startTime > input[3].startTime
           /\ Len(calls[1].result) = 1
           /\ calls[1].result[1].startTime = input[3].startTime
           /\ calls[1].result[1].duration =
                  input[1].startTime + input[1].duration - input[3].startTime

====
